---- MODULE Spec2Model ----
(***************************************************************************)
(* Model of the tenant isolation core of payments-orders-service:          *)
(*   BaseTenantRepository and TenantService (src/unnamed/part_003), the     *)
(*   request pipeline (src/unnamed/part_002), the legacy BaseRepository /    *)
(*   OrdersRepository / ordersService, and the storage they talk to.        *)
(* Every storage call (an await on this.db) is one atomic step; the code   *)
(* between two awaits runs synchronously and belongs to the step of the    *)
(* statement that precedes it.                                             *)
(***************************************************************************)
EXTENDS Integers, Sequences, FiniteSets, TLC

VARIABLES
    table,       \* rows of the tenant-scoped table ${tableName}
    audit_logs,  \* rows of audit_logs, in insertion order
    nextId,      \* next value of gen_random_uuid() (ids are never reused)
    now,         \* wall clock read by new Date()
    pc,          \* pc[p]: the await at which caller p's pending call is suspended
    call,        \* call[p]: method, arguments and locals of p's current call
    ret,         \* ret[p]: outcome of the last call of p that settled
    sent,        \* sent[p]: statements p's current (or last) call sent to storage
    ncalls,      \* number of calls started so far
    actor,       \* the caller whose call started last
    createdUnder, \* history: createdUnder[id] is the tenantId argument of the create that made id
    warnings,    \* lines written by console.warn
    txn,         \* txn[p]: the transaction p's db.tx holds open, and what its body wrote
    orders,      \* ordersService: const orders: Order[]
    memoryStore, \* BaseRepository.memoryStore of the OrdersRepository
    pgOrders,    \* rows of the orders table of src/db/schema.sql
    dbType,      \* getDatabaseStatus().type
    uuid,        \* next value of uuidv4() (ids are never reused)
    orderOwner,  \* history: orderOwner[id] is the tenant whose request created order id
    lret,        \* what the last ordersService / legacy repository call returned and changed
    tenant_quotas, \* rows of tenant_quotas
    tenants,     \* rows of tenants
    spc,         \* spc[p]: the await at which caller p's TenantService call is suspended
    scall,       \* scall[p]: method and arguments of p's current TenantService call
    sret,        \* sret[p]: outcome of the last TenantService call of p that settled
    quota0,      \* history: tenant_quotas as it was at the start
    added,       \* history: added[t][f] is the sum of the amounts of the settled incrementQuota calls on column f of t
    errors,      \* lines written by console.error
    tenant_settings, \* rows of tenant_settings
    req,         \* the Express request being handled: its authorization header and what was attached to it
    res,         \* the responses sent for the request, in order
    chain,       \* history: the middleware invoked for the request, in order, with what each did
    minted,      \* history: the last generateTenantToken call, its payload argument and the token it returned
    onboarded,   \* history: the tenants createTenant returned, each with the data it was given
    payments,    \* ordersService: const payments: Payment[]
    nftTransactions, \* ordersService: const nftTransactions: NFTMintTransaction[]
    hres         \* what the last order handler sent with res.status(...).json(...)

vars == <<table, audit_logs, nextId, now, pc, call, ret, sent, ncalls, actor, createdUnder,
          warnings, txn, orders, memoryStore, pgOrders, dbType, uuid, orderOwner, lret,
          tenant_quotas, tenants, spc, scall, sret, quota0, added, errors,
          tenant_settings, req, res, chain, minted, onboarded, payments,
          nftTransactions, hres>>

\* State of the request pipeline (tenantExtractorMiddleware and the guards)
httpVars == <<req, res, chain, minted>>

\* State of TenantService
serviceVars == <<tenant_quotas, tenants, spc, scall, sret, quota0, added, tenant_settings,
                 onboarded>>

\* State of ordersService and of the legacy repositories
legacyVars == <<orders, memoryStore, pgOrders, dbType, uuid, orderOwner, lret,
                payments, nftTransactions, hres>>

\* State of ordersService that only the order handlers reach
handlerVars == <<payments, nftTransactions, hres>>

\* What the CRUD methods of BaseTenantRepository never touch
outsideCrud == <<warnings, txn, legacyVars, serviceVars, httpVars>>

\* State of BaseTenantRepository that ordersService and the legacy repositories never touch
tenantRepoVars == <<table, audit_logs, nextId, pc, call, ret, sent, actor, createdUnder,
                    warnings, txn, errors>>

\* State of BaseTenantRepository that TenantService never touches
repositoryVars == <<table, nextId, pc, call, ret, sent, createdUnder, warnings, txn>>

----------------------------------------------------------------------------
(* Bounds of the model *)

MaxCalls == 3     \* calls started in one run
MaxTime == 1      \* last reading of the wall clock
MaxServiceCalls == 4   \* TenantService calls started in one run: two requests of two calls each

\* Two requests in flight in the one process
Callers == {1, 2}

----------------------------------------------------------------------------
(* Values *)

Tenants == {"t1", "t2"}
Statuses == {"pending", "completed"}
Absent == "undefined"
UserIds == {"u1"}

\* data: any -- the caller-supplied object; a key that is not present is Absent.
\* The objects tried name one column each: a business column, or tenant_id.
DataSet == [tenant_id : {Absent}, status : {"completed"}]
           \cup [tenant_id : Tenants, status : {Absent}]

\* TenantQueryOptions, the two fields the repository reads
OptionSet == [auditLog : BOOLEAN, userId : {Absent}] \cup [auditLog : {TRUE}, userId : UserIds]

DefaultLimit == 1000
DefaultOffset == 0
Limits == {0, 1}      \* 0 stands for an omitted (or zero) limit
Offsets == {0, 1}

NoRow == [id |-> 0, tenant_id |-> Absent, status |-> Absent, created_at |-> 0, updated_at |-> 0]
NoData == [tenant_id |-> Absent, status |-> Absent]
NoOptions == [auditLog |-> FALSE, userId |-> Absent]

NoTxn == [open |-> FALSE, pending |-> {}, wrote |-> {}]

\* Error messages: the text and the value interpolated into it
NotFoundError(tenantId) == <<"Record not found or does not belong to tenant", tenantId>>
NoDataError == <<"No data returned from the query.", Absent>>
\* Any rejection that storage itself produces
StorageError == <<"storage error", Absent>>
NoError == <<"", Absent>>

NoQuery == [text |-> << >>, values |-> << >>, validateTenantId |-> FALSE]

NoCall == [op |-> "none", tenantId |-> Absent, id |-> 0, data |-> NoData, query |-> NoQuery,
           options |-> NoOptions, existing |-> NoRow, stamp |-> 0,
           result |-> FALSE, record |-> NoRow]

NoRet == [op |-> "none", tenantId |-> Absent, id |-> 0, data |-> NoData, query |-> NoQuery,
          options |-> NoOptions,
          settled |-> "none", error |-> NoError, rows |-> {}, flag |-> FALSE]

----------------------------------------------------------------------------
(* Storage: the statements the repository builds, as relational operations *)

\* SELECT * FROM t WHERE tenant_id = $1 AND id = $2
SelectByTenantAndId(rows, tenantId, id) ==
    {r \in rows : r.tenant_id = tenantId /\ r.id = id}

\* SELECT * FROM t WHERE tenant_id = $1
SelectByTenant(rows, tenantId) ==
    {r \in rows : r.tenant_id = tenantId}

Min(a, b) == IF a < b THEN a ELSE b
Max(a, b) == IF a > b THEN a ELSE b

\* LIMIT $2 OFFSET $3 over an unordered SELECT: any window of the matching rows
LimitOffset(matching, limit, offset) ==
    {S \in SUBSET matching :
        Cardinality(S) = Min(limit, Max(0, Cardinality(matching) - offset))}

\* INSERT INTO t (columns of dataWithTenant) VALUES (...) RETURNING *:
\* id and status take their column defaults when the object does not name them
InsertedRow(dataWithTenant, id) ==
    [id |-> id,
     tenant_id |-> dataWithTenant.tenant_id,
     status |-> IF dataWithTenant.status = Absent THEN "pending" ELSE dataWithTenant.status,
     created_at |-> dataWithTenant.created_at,
     updated_at |-> dataWithTenant.updated_at]

\* Variant: the statement writes every column of the entity, absent ones as their default
UpdatedRow_AllColumns(r, dataWithTimestamp) ==
    [r EXCEPT
        !.tenant_id = IF dataWithTimestamp.tenant_id = Absent THEN @ ELSE dataWithTimestamp.tenant_id,
        !.status = IF dataWithTimestamp.status = Absent THEN "pending" ELSE dataWithTimestamp.status,
        !.updated_at = dataWithTimestamp.updated_at]

\* UPDATE t SET <columns of dataWithTimestamp> applied to one row
UpdatedRow(r, dataWithTimestamp) ==
    [r EXCEPT
        !.tenant_id = IF dataWithTimestamp.tenant_id = Absent THEN @ ELSE dataWithTimestamp.tenant_id,
        !.status = IF dataWithTimestamp.status = Absent THEN @ ELSE dataWithTimestamp.status,
        !.updated_at = dataWithTimestamp.updated_at]

\* A statement as the storage sees it: its verb and the tenant bound into it
Stmt(sql, tenant) == [sql |-> sql, tenant |-> tenant, text |-> << >>, values |-> << >>]

----------------------------------------------------------------------------
(* BaseTenantRepository: what each method computes between two awaits *)

\* findAll: the SELECT's predicate, and the window options?.limit || 1000, options?.offset || 0
FindAllRows(rows, tenantId) == SelectByTenant(rows, tenantId)
FindAllLimit(limit) == IF limit = 0 THEN DefaultLimit ELSE limit
FindAllOffset(offset) == IF offset = 0 THEN DefaultOffset ELSE offset

\* Variant: the predicate names the id alone
FindByIdRows_IdOnly(rows, tenantId, id) == {r \in rows : r.id = id}

\* findById: db.oneOrNone of the compound predicate
FindByIdRows(rows, tenantId, id) == SelectByTenantAndId(rows, tenantId, id)

\* Variant: a row of another tenant is reported as forbidden
FindByIdOutcome_Forbidden(rows, tenantId, id) ==
    LET record == FindByIdRows(rows, tenantId, id)
    IN IF record # {}
       THEN <<"resolved", NoError, record>>
       ELSE IF \E r \in rows : r.id = id
            THEN <<"rejected", <<"Record belongs to another tenant", tenantId>>, {}>>
            ELSE <<"rejected", NotFoundError(tenantId), {}>>

\* findById: what the caller gets, <<settled, error, rows>>
FindByIdOutcome(rows, tenantId, id) ==
    LET record == FindByIdRows(rows, tenantId, id)
    IN IF record = {}
       THEN <<"rejected", NotFoundError(tenantId), {}>>
       ELSE <<"resolved", NoError, record>>

\* Variant: { tenant_id: tenantId, ...data }, the caller's keys spread last
DataWithTenant_DataLast(tenantId, data, date) ==
    [tenant_id |-> IF data.tenant_id = Absent THEN tenantId ELSE data.tenant_id,
     status |-> data.status, created_at |-> date, updated_at |-> date]

\* create: { ...data, tenant_id: tenantId, created_at: new Date(), updated_at: new Date() }
DataWithTenant(tenantId, data, date) ==
    [tenant_id |-> tenantId, status |-> data.status, created_at |-> date, updated_at |-> date]

\* update: { ...data, updated_at: new Date() }
DataWithTimestamp(data, date) ==
    [tenant_id |-> data.tenant_id, status |-> data.status, updated_at |-> date]

\* update: UPDATE ... WHERE tenant_id = $n+1 AND id = $n+2 RETURNING *
UpdateMatched(rows, tenantId, id) == SelectByTenantAndId(rows, tenantId, id)

\* delete: DELETE FROM ... WHERE tenant_id = $1 AND id = $2
DeleteMatched(rows, tenantId, id) == SelectByTenantAndId(rows, tenantId, id)

\* Variant: return true once the statement has run
DeleteResult_Ran(rowCount) == rowCount >= 0

\* delete: return result.rowCount === 1
DeleteResult(rowCount) == rowCount = 1

\* Variant: the UPDATE entry carries the record as it is after the write
AuditEntry_PreviousAfter(c) ==
    [tenant_id |-> c.tenantId,
     user_id |-> IF c.options.userId = Absent THEN "system" ELSE c.options.userId,
     action |-> CASE c.op = "create" -> "CREATE"
                  [] c.op = "update" -> "UPDATE"
                  [] OTHER -> "DELETE",
     resource_id |-> IF c.op = "create" THEN c.record.id ELSE c.id,
     changes |-> IF c.op = "delete" THEN NoData ELSE c.data,
     previous |-> IF c.op = "update" THEN c.record ELSE NoRow]

\* logAudit: the row it inserts; userId || 'system'
AuditEntry(c) ==
    [tenant_id |-> c.tenantId,
     user_id |-> IF c.options.userId = Absent THEN "system" ELSE c.options.userId,
     action |-> CASE c.op = "create" -> "CREATE"
                  [] c.op = "update" -> "UPDATE"
                  [] OTHER -> "DELETE",
     resource_id |-> IF c.op = "create" THEN c.record.id ELSE c.id,
     changes |-> IF c.op = "delete" THEN NoData ELSE c.data,
     previous |-> IF c.op = "update" THEN c.existing ELSE NoRow]

NewCall(op, tenantId, id, data, options) ==
    [op |-> op, tenantId |-> tenantId, id |-> id, data |-> data, query |-> NoQuery,
     options |-> options, existing |-> NoRow, stamp |-> 0, result |-> FALSE, record |-> NoRow]

Outcome(c, settled, error, rows, flag) ==
    [op |-> c.op, tenantId |-> c.tenantId, id |-> c.id, data |-> c.data, query |-> c.query,
     options |-> c.options,
     settled |-> settled, error |-> error, rows |-> rows, flag |-> flag]

CanCall(p) == pc[p] = "idle" /\ ncalls < MaxCalls

\* ids a caller may name: every id handed out so far and one that was not
KnownIds == 1..nextId

----------------------------------------------------------------------------
(* Values of ordersService and of the legacy repositories *)

\* getDatabaseStatus().type
DatabaseTypes == {"memory", "postgres"}

\* Users of the two tenants
LegacyUserIds == {"u1", "u2"}

\* null / undefined where an Order is expected.  An Order keeps the fields the
\* operations read or write; ticketId, quantity and totalAmount are carried
\* along unread and are left out.
NoOrder == [id |-> 0, userId |-> Absent, status |-> Absent, nftTokenIds |-> << >>,
            createdAt |-> 0, updatedAt |-> 0]

\* data: Partial<Order> as update() receives it: a status, or no key at all
OrderDataSet == [status : {Absent, "completed"}]

NoLegacyRet == [op |-> "none", tenant |-> Absent, returned |-> {}, modified |-> {}]

\* req.body of POST /orders.  A key the body lacks reads as undefined; a
\* quantity of 0 stands for the lacking quantity too, both being falsy.
OrderBodies == [userId : {Absent, "u1"}, ticketId : {Absent, "k1"}, quantity : {0, 1},
                totalAmount : {Absent, "10"}]

\* req.body of PATCH /orders/:orderId/status
StatusBodies == [status : {Absent, "", "pending", "completed"}]

\* req.body of POST /orders/:orderId/payments
PaymentBodies == [amount : {Absent, "10"}, currency : {Absent, "usd"},
                  paymentMethod : {Absent, "card"}]

\* req.body of POST /orders/:orderId/mint-nft
MintBodies == [contractAddress : {Absent, "0xc"}, recipientAddress : {Absent, "0xr"},
               tokenId : {Absent, "tok1"}]

\* A payment not charged yet has no stripeChargeId
NoCharge == << >>

\* A mint transaction not mined yet has no transactionHash
NoHash == << >>

NoResponse == [handler |-> "none", orderId |-> 0, request |-> Absent, status |-> 0,
               body |-> Absent]

----------------------------------------------------------------------------
(* Values of TenantService *)

\* The ceilings createTenant and the schema give a tenant
DefaultMaxUsers == 10
DefaultMaxOrders == 1000
DefaultMaxEvents == 100
DefaultApiCallsPerDay == 10000
DefaultStorageQuotaMb == 1000

\* amount: number = 1
DefaultAmount == 1

\* The resources validateQuota has a case for
CheckedResources == {"users", "orders", "events", "api_calls"}

UsedFields == {"used_users", "used_orders", "used_events", "used_api_calls", "used_storage_mb"}

\* amount: number -- nothing restricts it to positive values
Amounts == {0 - 1, DefaultAmount, 2}

\* A row of tenant_quotas whose counters stand at `below` under their ceilings
\* (below = the ceiling itself for the row a new tenant gets: used = 0).
\* reset_date is one day after the row was made, which is where the clock starts.
\* updated_at is written by every increment and read by nothing; it is left out.
QuotaRow(t, headroom) ==
    [tenant_id |-> t,
     max_users |-> DefaultMaxUsers,
     used_users |-> DefaultMaxUsers - headroom[1],
     max_orders |-> DefaultMaxOrders,
     used_orders |-> DefaultMaxOrders - headroom[2],
     max_events |-> DefaultMaxEvents,
     used_events |-> DefaultMaxEvents - headroom[3],
     storage_quota_mb |-> DefaultStorageQuotaMb,
     used_storage_mb |-> 0,
     api_calls_per_day |-> DefaultApiCallsPerDay,
     used_api_calls |-> DefaultApiCallsPerDay - headroom[4],
     reset_date |-> 0]

\* Every tenant unused, or every tenant one short of each ceiling
QuotaTables ==
    { {QuotaRow(t, <<DefaultMaxUsers, DefaultMaxOrders, DefaultMaxEvents, DefaultApiCallsPerDay>>) : t \in Tenants},
      {QuotaRow(t, <<1, 1, 1, 1>>) : t \in Tenants} }

Reasons == {"unpaid"}

\* TenantQuota where none was read
NoQuota ==
    [tenantId |-> Absent, maxUsers |-> 0, usedUsers |-> 0, maxOrders |-> 0, usedOrders |-> 0,
     maxEvents |-> 0, usedEvents |-> 0, storageQuota |-> 0, usedStorage |-> 0,
     apiCallsPerDay |-> 0, usedApiCalls |-> 0, resetDate |-> 0]

NoServiceCall == [op |-> "none", tenantId |-> Absent, reason |-> Absent]

NoServiceRet ==
    [op |-> "none", tenantId |-> Absent, resource |-> Absent, amount |-> 0,
     settled |-> "none", error |-> NoError, quota |-> NoQuota, value |-> FALSE]

\* createTenant's argument: plan is optional
TenantData == [name : {"Acme"}, slug : {"acme", "globex"}, email : {"ops@acme"},
               plan : {Absent, "pro"}]

\* Variant: plan is stored as given
TenantRow_PlanAsGiven(id, data) ==
    [id |-> id, name |-> data.name, slug |-> data.slug, email |-> data.email,
     plan |-> data.plan, status |-> "active", suspension_reason |-> Absent]

\* A row of tenants as createTenant inserts it: plan is data.plan || 'free'
\* and status is 'active'
TenantRow(id, data) ==
    [id |-> id, name |-> data.name, slug |-> data.slug, email |-> data.email,
     plan |-> IF data.plan = Absent THEN "free" ELSE data.plan,
     status |-> "active", suspension_reason |-> Absent]

\* The rows of the tenants the model starts with
SeedTenant(t) == TenantRow(t, [name |-> t, slug |-> t, email |-> t, plan |-> Absent])

\* The row createTenant inserts into tenant_settings; the columns it does
\* not name take the defaults of the schema
SettingsRow(tenantId) ==
    [tenant_id |-> tenantId, max_users |-> DefaultMaxUsers,
     max_orders |-> DefaultMaxOrders, max_events |-> DefaultMaxEvents,
     data_residency |-> "us", encryption_enabled |-> FALSE]

\* getTenantSettings: what it returns when the tenant has no row
DefaultSettings ==
    [maxUsers |-> DefaultMaxUsers, maxOrders |-> DefaultMaxOrders,
     maxEvents |-> DefaultMaxEvents, dataResidency |-> "global",
     encryptionEnabled |-> FALSE]

\* gen_random_uuid() for tenants.id: the ids handed out, in order
TenantIdPool == <<"t3", "t4", "t5", "t6", "t7">>

\* reset_date TIMESTAMP DEFAULT (NOW() + INTERVAL '1 day'), in ticks of the clock
OneDay == 1

----------------------------------------------------------------------------
(* Values of the request pipeline *)

\* Text the middleware takes apart is a sequence of pieces, one of which is
\* the delimiter; the empty string is << >> and undefined is the text below
Undefined == <<Absent>>
Delimiter == "|"

\* JWTPayload: the claims a credential may carry; a claim that is not in the
\* credential is Absent (Undefined for text, NoPermissions for the array)
SubjectSet == {Undefined, << >>, <<"u1">>, <<"t1", Delimiter, "u1">>, <<Delimiter, "u1">>}
TenantIdSet == {Undefined, << >>, <<"t2">>}
TenantNameSet == {Absent, "Acme"}
RoleSet == {Absent, "", "admin", "viewer"}
PlanSet == {Absent, "", "pro"}
NoPermissions == {Absent}
PermissionSet == {NoPermissions, {}, {"orders:create", "orders:read"}}

\* The credentials tried vary the claims the tenant is taken from, or the
\* claims that have defaults
Payloads == [sub : SubjectSet, tenant_id : TenantIdSet, tenant_name : {Absent},
             role : {"admin"}, permissions : {NoPermissions}, plan : {Absent}]
            \cup [sub : {<<"u1">>}, tenant_id : {<<"t2">>}, tenant_name : TenantNameSet,
                  role : RoleSet, permissions : PermissionSet, plan : PlanSet]

NoPayload == [sub |-> Undefined, tenant_id |-> Undefined, tenant_name |-> Absent,
              role |-> Absent, permissions |-> NoPermissions, plan |-> Absent]

\* process.env.JWT_SECRET || 'your-secret-key', and a key the service does not hold
JwtSecret == "your-secret-key"
Secrets == {JwtSecret, "another-key"}

\* A credential: its claims, the key that signed it, iat and exp.  A string
\* that is not a JWT at all is NoToken.
NoToken == [payload |-> NoPayload, key |-> Absent, iat |-> 0, exp |-> 0, wellFormed |-> FALSE]

\* req.headers.authorization
NoHeader == [scheme |-> Absent, credentials |-> NoToken]
Schemes == {"Bearer ", "Basic "}

\* req.tenantContext when nothing was attached
NoContext == [tenantId |-> Undefined, userId |-> Undefined, tenantName |-> Absent,
              plan |-> Absent, role |-> Absent, permissions |-> NoPermissions,
              issuedAt |-> 0, expiresAt |-> 0]

\* An Express request as it arrives
NewRequest(header) ==
    [authorization |-> header, tenantContext |-> NoContext,
     userId |-> Undefined, tenantId |-> Undefined]

\* What a middleware does with res and next
Response(status, error) == [kind |-> "response", status |-> status, error |-> error]
NextCall(error) == [kind |-> "next", status |-> 0, error |-> error]

NoMint == [payload |-> NoContext, token |-> NoToken]

----------------------------------------------------------------------------
(* BaseTenantRepository: the methods, one action per await *)

Init ==
    /\ table = {}
    /\ audit_logs = << >>
    /\ nextId = 1
    /\ now = 0
    /\ pc = [p \in Callers |-> "idle"]
    /\ call = [p \in Callers |-> NoCall]
    /\ ret = [p \in Callers |-> NoRet]
    /\ sent = [p \in Callers |-> << >>]
    /\ ncalls = 0
    /\ actor = 1
    /\ createdUnder = << >>
    /\ warnings = 0
    /\ txn = [p \in Callers |-> NoTxn]
    /\ orders = << >>
    /\ memoryStore = << >>
    /\ pgOrders = {}
    /\ dbType \in DatabaseTypes
    /\ uuid = 1
    /\ orderOwner = << >>
    /\ lret = NoLegacyRet
    /\ tenant_quotas \in QuotaTables
    /\ tenants = {SeedTenant(t) : t \in Tenants}
    /\ spc = [p \in Callers |-> "idle"]
    /\ scall = [p \in Callers |-> NoServiceCall]
    /\ sret = [p \in Callers |-> NoServiceRet]
    /\ quota0 = tenant_quotas
    /\ added = [t \in Tenants |-> [f \in UsedFields |-> 0]]
    /\ errors = 0
    /\ tenant_settings = {SettingsRow(t) : t \in Tenants}
    /\ req = NewRequest(NoHeader)
    /\ res = << >>
    /\ chain = << >>
    /\ minted = NoMint
    /\ onboarded = {}
    /\ payments = << >>
    /\ nftTransactions = << >>
    /\ hres = NoResponse

\* The wall clock advances between any two steps
Tick ==
    /\ now < MaxTime
    /\ now' = now + 1
    /\ UNCHANGED <<table, audit_logs, nextId, pc, call, ret, sent, ncalls, actor, createdUnder>>
    /\ UNCHANGED outsideCrud
    /\ UNCHANGED errors

\* findAll(tenantId, {limit, offset})
FindAll(p, tenantId, limit, offset) ==
    /\ CanCall(p)
    /\ LET c == NewCall("findAll", tenantId, 0, NoData, NoOptions)
       IN \E S \in LimitOffset(FindAllRows(table, tenantId),
                               FindAllLimit(limit), FindAllOffset(offset)) :
            /\ call' = call
            /\ ret' = [ret EXCEPT ![p] = Outcome(c, "resolved", NoError, S, FALSE)]
            /\ sent' = [sent EXCEPT ![p] = <<Stmt("SELECT", tenantId)>>]
    /\ ncalls' = ncalls + 1
    /\ actor' = p
    /\ UNCHANGED <<table, audit_logs, nextId, now, pc, createdUnder>>
    /\ UNCHANGED outsideCrud
    /\ UNCHANGED errors

\* findById(tenantId, id)
FindById(p, tenantId, id) ==
    /\ CanCall(p)
    /\ LET c == NewCall("findById", tenantId, id, NoData, NoOptions)
           found == FindByIdOutcome(table, tenantId, id)
       IN /\ call' = call
          /\ ret' = [ret EXCEPT ![p] = Outcome(c, found[1], found[2], found[3], FALSE)]
          /\ sent' = [sent EXCEPT ![p] = <<Stmt("SELECT", tenantId)>>]
    /\ ncalls' = ncalls + 1
    /\ actor' = p
    /\ UNCHANGED <<table, audit_logs, nextId, now, pc, createdUnder>>
    /\ UNCHANGED outsideCrud
    /\ UNCHANGED errors

\* create(tenantId, data, options): the INSERT
Create(p, tenantId, data, options) ==
    /\ CanCall(p)
    /\ LET record == InsertedRow(DataWithTenant(tenantId, data, now), nextId)
           c == [NewCall("create", tenantId, 0, data, options) EXCEPT !.record = record]
       IN /\ table' = table \cup {record}
          /\ sent' = [sent EXCEPT ![p] = <<Stmt("INSERT", record.tenant_id)>>]
          /\ IF options.auditLog
             THEN /\ pc' = [pc EXCEPT ![p] = "audit"]
                  /\ call' = [call EXCEPT ![p] = c]
                  /\ ret' = ret
             ELSE /\ pc' = pc
                  /\ call' = call
                  /\ ret' = [ret EXCEPT ![p] = Outcome(c, "resolved", NoError, {record}, FALSE)]
    /\ nextId' = nextId + 1
    /\ ncalls' = ncalls + 1
    /\ actor' = p
    /\ createdUnder' = Append(createdUnder, tenantId)
    /\ UNCHANGED <<audit_logs, now>>
    /\ UNCHANGED outsideCrud
    /\ UNCHANGED errors

\* update(tenantId, id, data, options): the findById that precedes the write
Update(p, tenantId, id, data, options) ==
    /\ CanCall(p)
    /\ LET c == NewCall("update", tenantId, id, data, options)
           found == FindByIdOutcome(table, tenantId, id)
       IN /\ sent' = [sent EXCEPT ![p] = <<Stmt("SELECT", tenantId)>>]
          /\ IF found[1] = "rejected"
             THEN /\ call' = call
                  /\ ret' = [ret EXCEPT ![p] = Outcome(c, found[1], found[2], {}, FALSE)]
                  /\ pc' = pc
             ELSE /\ call' = [call EXCEPT ![p] =
                        [c EXCEPT !.existing = CHOOSE r \in found[3] : TRUE, !.stamp = now]]
                  /\ ret' = ret
                  /\ pc' = [pc EXCEPT ![p] = "update_write"]
    /\ ncalls' = ncalls + 1
    /\ actor' = p
    /\ UNCHANGED <<table, audit_logs, nextId, now, createdUnder>>
    /\ UNCHANGED outsideCrud
    /\ UNCHANGED errors

\* update: the UPDATE ... RETURNING * through db.one, which rejects unless one row comes back
UpdateWrite(p) ==
    /\ pc[p] = "update_write"
    /\ LET c == call[p]
           matched == UpdateMatched(table, c.tenantId, c.id)
           updated == {UpdatedRow(r, DataWithTimestamp(c.data, c.stamp)) : r \in matched}
       IN /\ table' = (table \ matched) \cup updated
          /\ sent' = [sent EXCEPT ![p] = Append(@, Stmt("UPDATE", c.tenantId))]
          /\ IF matched = {}
             THEN /\ pc' = [pc EXCEPT ![p] = "idle"]
                  /\ ret' = [ret EXCEPT ![p] = Outcome(c, "rejected", NoDataError, {}, FALSE)]
                  /\ call' = [call EXCEPT ![p] = NoCall]
             ELSE IF c.options.auditLog
             THEN /\ pc' = [pc EXCEPT ![p] = "audit"]
                  /\ call' = [call EXCEPT ![p].record = CHOOSE r \in updated : TRUE]
                  /\ ret' = ret
             ELSE /\ pc' = [pc EXCEPT ![p] = "idle"]
                  /\ ret' = [ret EXCEPT ![p] = Outcome(c, "resolved", NoError, updated, FALSE)]
                  /\ call' = [call EXCEPT ![p] = NoCall]
    /\ UNCHANGED <<audit_logs, nextId, now, ncalls, actor, createdUnder>>
    /\ UNCHANGED outsideCrud
    /\ UNCHANGED errors

\* delete(tenantId, id, options): the findById that precedes the write
Delete(p, tenantId, id, options) ==
    /\ CanCall(p)
    /\ LET c == NewCall("delete", tenantId, id, NoData, options)
           found == FindByIdOutcome(table, tenantId, id)
       IN /\ sent' = [sent EXCEPT ![p] = <<Stmt("SELECT", tenantId)>>]
          /\ IF found[1] = "rejected"
             THEN /\ ret' = [ret EXCEPT ![p] = Outcome(c, found[1], found[2], {}, FALSE)]
                  /\ call' = call
                  /\ pc' = pc
             ELSE /\ ret' = ret
                  /\ call' = [call EXCEPT ![p] = c]
                  /\ pc' = [pc EXCEPT ![p] = "delete_write"]
    /\ ncalls' = ncalls + 1
    /\ actor' = p
    /\ UNCHANGED <<table, audit_logs, nextId, now, createdUnder>>
    /\ UNCHANGED outsideCrud
    /\ UNCHANGED errors

\* delete: the DELETE through db.result
DeleteWrite(p) ==
    /\ pc[p] = "delete_write"
    /\ LET c == call[p]
           matched == DeleteMatched(table, c.tenantId, c.id)
           result == DeleteResult(Cardinality(matched))
       IN /\ table' = table \ matched
          /\ sent' = [sent EXCEPT ![p] = Append(@, Stmt("DELETE", c.tenantId))]
          /\ IF c.options.auditLog
             THEN /\ pc' = [pc EXCEPT ![p] = "audit"]
                  /\ call' = [call EXCEPT ![p].result = result]
                  /\ ret' = ret
             ELSE /\ pc' = [pc EXCEPT ![p] = "idle"]
                  /\ call' = [call EXCEPT ![p] = NoCall]
                  /\ ret' = [ret EXCEPT ![p] = Outcome(c, "resolved", NoError, {}, result)]
    /\ UNCHANGED <<audit_logs, nextId, now, ncalls, actor, createdUnder>>
    /\ UNCHANGED outsideCrud
    /\ UNCHANGED errors

\* Variant: the audit statement overwrites what the table held
InsertAuditLog_Replaced(logs, entry) == <<entry>>

\* INSERT INTO audit_logs (...) VALUES (...): the only statement the
\* repository and the service send to audit_logs
InsertAuditLog(logs, entry) == Append(logs, entry)

\* Variant: logAudit without its try/catch
AfterAudit_Propagated(c, inserted) ==
    IF ~inserted THEN Outcome(c, "rejected", StorageError, {}, FALSE)
    ELSE IF c.op = "delete"
    THEN Outcome(c, "resolved", NoError, {}, c.result)
    ELSE Outcome(c, "resolved", NoError, {c.record}, FALSE)

\* What create, update and delete settle with once logAudit has returned:
\* return record / return updated / return result.rowCount === 1
AfterAudit(c, inserted) ==
    IF c.op = "delete"
    THEN Outcome(c, "resolved", NoError, {}, c.result)
    ELSE Outcome(c, "resolved", NoError, {c.record}, FALSE)

\* logAudit: the INSERT INTO audit_logs, whose failure is caught and logged,
\* and the return of the method that awaited it
LogAudit(p, inserted) ==
    /\ pc[p] = "audit"
    /\ LET c == call[p]
       IN /\ audit_logs' = IF inserted THEN InsertAuditLog(audit_logs, AuditEntry(c)) ELSE audit_logs
          /\ errors' = IF inserted THEN errors ELSE errors + 1
          /\ sent' = [sent EXCEPT ![p] = Append(@, Stmt("INSERT_AUDIT", c.tenantId))]
          /\ ret' = [ret EXCEPT ![p] = AfterAudit(c, inserted)]
    /\ pc' = [pc EXCEPT ![p] = "idle"]
    /\ call' = [call EXCEPT ![p] = NoCall]
    /\ UNCHANGED <<table, nextId, now, ncalls, actor, createdUnder>>
    /\ UNCHANGED outsideCrud

\* The object the audited calls carry
AuditedData == [tenant_id |-> Absent, status |-> "completed"]

\* The change the audited updates make
AuditedChange == [tenant_id |-> Absent, status |-> "pending"]

\* The mutating calls with every choice of options, and the audit insert
\* succeeding or failing
NextAudited ==
    \/ \E p \in Callers, t \in Tenants, o \in OptionSet : Create(p, t, AuditedData, o)
    \/ \E p \in Callers, t \in Tenants, id \in KnownIds, o \in OptionSet :
            Update(p, t, id, AuditedChange, o)
    \/ \E p \in Callers : UpdateWrite(p)
    \/ \E p \in Callers, t \in Tenants, id \in KnownIds, o \in OptionSet : Delete(p, t, id, o)
    \/ \E p \in Callers : DeleteWrite(p)
    \/ \E p \in Callers, inserted \in BOOLEAN : LogAudit(p, inserted)

\* Calls made without options: no audit entry is asked for
Next ==
    \/ Tick
    \/ \E p \in Callers, t \in Tenants, l \in Limits, o \in Offsets : FindAll(p, t, l, o)
    \/ \E p \in Callers, t \in Tenants, id \in KnownIds : FindById(p, t, id)
    \/ \E p \in Callers, t \in Tenants, d \in DataSet : Create(p, t, d, NoOptions)
    \/ \E p \in Callers, t \in Tenants, id \in KnownIds, d \in DataSet :
            Update(p, t, id, d, NoOptions)
    \/ \E p \in Callers : UpdateWrite(p)
    \/ \E p \in Callers, t \in Tenants, id \in KnownIds : Delete(p, t, id, NoOptions)
    \/ \E p \in Callers : DeleteWrite(p)

Spec == Init /\ [][Next]_vars

SpecAudited == Init /\ [][NextAudited]_vars

----------------------------------------------------------------------------
(* BaseTenantRepository: query, unsafe and transaction *)

MaxBodyWrites == 2    \* statements one transaction body sends

\* Query texts, as sequences of words
QueryTexts ==
    { <<"SELECT", "*", "FROM", "orders">>,
      <<"SELECT", "*", "FROM", "orders", "WHERE", "tenant_id", "=", "$1">>,
      <<"SELECT", "*", "FROM", "orders", "WHERE", "TENANT_ID", "=", "$1">>,
      <<"SELECT", "tenant_id", "FROM", "orders">> }

QueryValues == {<< >>} \cup {<<t>> : t \in Tenants}

\* String.prototype.toLowerCase, word by word
Lower(w) ==
    CASE w = "SELECT" -> "select"
      [] w = "FROM" -> "from"
      [] w = "WHERE" -> "where"
      [] w = "TENANT_ID" -> "tenant_id"
      [] OTHER -> w
ToLowerCase(text) == [i \in 1..Len(text) |-> Lower(text[i])]

\* String.prototype.includes, at the granularity of words
Includes(text, w) == \E i \in 1..Len(text) : text[i] = w

\* Storage: the text restricts its rows to the tenant bound to $1
HasTenantFilter(text) ==
    \E i \in 1..Len(text) :
        /\ i + 3 <= Len(text)
        /\ Lower(text[i]) = "where" /\ Lower(text[i + 1]) = "tenant_id"
        /\ text[i + 2] = "=" /\ text[i + 3] = "$1"

\* Storage: the text refers to $1 and no value is supplied for it
MissingValue(text, values) == Includes(text, "$1") /\ Len(values) = 0

\* Storage: the rows a text selects
QueryRows(rows, text, values) ==
    IF HasTenantFilter(text) THEN SelectByTenant(rows, values[1]) ELSE rows

\* The statement this.db.query(query, values) sends
QueryStmt(text, values) ==
    [sql |-> "QUERY",
     tenant |-> IF HasTenantFilter(text) /\ Len(values) > 0 THEN values[1] ELSE Absent,
     text |-> text, values |-> values]

UnsafeQueryError == <<"Query must include tenant_id filter for security. Use unsafe() if you really want to skip this.", Absent>>
BodyError == <<"error thrown by the transaction body", Absent>>

\* Variant: the text is searched as written, without toLowerCase()
QueryRefused_CaseSensitive(text, validateTenantId) ==
    validateTenantId /\ ~Includes(text, "tenant_id")

\* query: options?.validateTenantId && !query.toLowerCase().includes('tenant_id')
QueryRefused(text, validateTenantId) ==
    validateTenantId /\ ~Includes(ToLowerCase(text), "tenant_id")

\* this.db.query(query, values), as the caller sees it settle
RunQuery(c, text, values) ==
    IF MissingValue(text, values)
    THEN Outcome(c, "rejected", StorageError, {}, FALSE)
    ELSE Outcome(c, "resolved", NoError, QueryRows(table, text, values), FALSE)

\* query(query, values, options)
Query(p, text, values, validateTenantId) ==
    /\ CanCall(p)
    /\ LET c == [NewCall("query", Absent, 0, NoData, NoOptions) EXCEPT
                    !.query = [text |-> text, values |-> values,
                               validateTenantId |-> validateTenantId]]
       IN IF QueryRefused(text, validateTenantId)
          THEN /\ ret' = [ret EXCEPT ![p] = Outcome(c, "rejected", UnsafeQueryError, {}, FALSE)]
               /\ sent' = [sent EXCEPT ![p] = << >>]
          ELSE /\ ret' = [ret EXCEPT ![p] = RunQuery(c, text, values)]
               /\ sent' = [sent EXCEPT ![p] = <<QueryStmt(text, values)>>]
    /\ ncalls' = ncalls + 1
    /\ actor' = p
    /\ UNCHANGED <<table, audit_logs, nextId, now, pc, call, createdUnder, warnings, txn>>
    /\ UNCHANGED legacyVars
    /\ UNCHANGED <<serviceVars, errors, httpVars>>

\* unsafe(query, values)
Unsafe(p, text, values) ==
    /\ CanCall(p)
    /\ LET c == [NewCall("unsafe", Absent, 0, NoData, NoOptions) EXCEPT
                    !.query = [text |-> text, values |-> values, validateTenantId |-> FALSE]]
       IN /\ ret' = [ret EXCEPT ![p] = RunQuery(c, text, values)]
          /\ sent' = [sent EXCEPT ![p] = <<QueryStmt(text, values)>>]
    /\ warnings' = warnings + 1
    /\ ncalls' = ncalls + 1
    /\ actor' = p
    /\ UNCHANGED <<table, audit_logs, nextId, now, pc, call, createdUnder, txn>>
    /\ UNCHANGED legacyVars
    /\ UNCHANGED <<serviceVars, errors, httpVars>>

\* transaction(tenantId, callback): this.db.tx opens a transaction on a
\* connection of its own and runs callback(task)
Transaction(p, tenantId) ==
    /\ CanCall(p)
    /\ call' = [call EXCEPT ![p] = NewCall("transaction", tenantId, 0, NoData, NoOptions)]
    /\ pc' = [pc EXCEPT ![p] = "tx_body"]
    /\ txn' = [txn EXCEPT ![p] = [open |-> TRUE, pending |-> {}, wrote |-> {}]]
    /\ sent' = [sent EXCEPT ![p] = << >>]
    /\ ncalls' = ncalls + 1
    /\ actor' = p
    /\ UNCHANGED <<table, audit_logs, nextId, now, ret, createdUnder, warnings>>
    /\ UNCHANGED legacyVars
    /\ UNCHANGED <<serviceVars, errors, httpVars>>

CanWriteInBody(p) ==
    pc[p] = "tx_body" /\ Cardinality(txn[p].wrote) < MaxBodyWrites

\* The body inserts a row through the task handle: the row is written inside
\* the open transaction and is not in the committed table until COMMIT
TxTaskInsert(p, tenantId, data) ==
    /\ CanWriteInBody(p)
    /\ LET record == InsertedRow(DataWithTenant(tenantId, data, now), nextId)
       IN /\ txn' = [txn EXCEPT ![p].pending = @ \cup {record}, ![p].wrote = @ \cup {record}]
          /\ sent' = [sent EXCEPT ![p] = Append(@, Stmt("INSERT", record.tenant_id))]
    /\ nextId' = nextId + 1
    /\ createdUnder' = Append(createdUnder, tenantId)
    /\ UNCHANGED <<table, audit_logs, now, pc, call, ret, ncalls, actor, warnings>>
    /\ UNCHANGED legacyVars
    /\ UNCHANGED <<serviceVars, errors, httpVars>>

\* The body calls the repository's own create: its INSERT goes through
\* this.db, outside the transaction the task handle holds, and is committed at once
TxRepoCreate(p, tenantId, data) ==
    /\ CanWriteInBody(p)
    /\ LET record == InsertedRow(DataWithTenant(tenantId, data, now), nextId)
       IN /\ table' = table \cup {record}
          /\ txn' = [txn EXCEPT ![p].wrote = @ \cup {record}]
          /\ sent' = [sent EXCEPT ![p] = Append(@, Stmt("INSERT", record.tenant_id))]
    /\ nextId' = nextId + 1
    /\ createdUnder' = Append(createdUnder, tenantId)
    /\ UNCHANGED <<audit_logs, now, pc, call, ret, ncalls, actor, warnings>>
    /\ UNCHANGED legacyVars
    /\ UNCHANGED <<serviceVars, errors, httpVars>>

\* The body resolves: db.tx sends COMMIT and resolves
TxResolve(p) ==
    /\ pc[p] = "tx_body"
    /\ table' = table \cup txn[p].pending
    /\ txn' = [txn EXCEPT ![p].open = FALSE, ![p].pending = {}]
    /\ ret' = [ret EXCEPT ![p] = Outcome(call[p], "resolved", NoError, txn[p].wrote, FALSE)]
    /\ pc' = [pc EXCEPT ![p] = "idle"]
    /\ call' = [call EXCEPT ![p] = NoCall]
    /\ UNCHANGED <<audit_logs, nextId, now, sent, ncalls, actor, createdUnder, warnings>>
    /\ UNCHANGED legacyVars
    /\ UNCHANGED <<serviceVars, errors, httpVars>>

\* The body rejects: db.tx sends ROLLBACK and rejects with the body's error
TxReject(p) ==
    /\ pc[p] = "tx_body"
    /\ txn' = [txn EXCEPT ![p].open = FALSE, ![p].pending = {}]
    /\ ret' = [ret EXCEPT ![p] = Outcome(call[p], "rejected", BodyError, {}, FALSE)]
    /\ pc' = [pc EXCEPT ![p] = "idle"]
    /\ call' = [call EXCEPT ![p] = NoCall]
    /\ UNCHANGED <<table, audit_logs, nextId, now, sent, ncalls, actor, createdUnder, warnings>>
    /\ UNCHANGED legacyVars
    /\ UNCHANGED <<serviceVars, errors, httpVars>>

\* One row shape is enough for the rows these methods read
QueryData == [tenant_id |-> Absent, status |-> "completed"]

QueryCallers == {1}

NextQuery ==
    \/ \E p \in QueryCallers, t \in Tenants : Create(p, t, QueryData, NoOptions)
    \/ \E p \in QueryCallers, x \in QueryTexts, v \in QueryValues, b \in BOOLEAN : Query(p, x, v, b)
    \/ \E p \in QueryCallers, x \in QueryTexts, v \in QueryValues : Unsafe(p, x, v)
    \/ \E p \in QueryCallers, t \in Tenants : Transaction(p, t)
    \/ \E p \in QueryCallers, t \in Tenants : TxTaskInsert(p, t, QueryData)
    \/ \E p \in QueryCallers, t \in Tenants : TxRepoCreate(p, t, QueryData)
    \/ \E p \in QueryCallers : TxResolve(p)
    \/ \E p \in QueryCallers : TxReject(p)

SpecQuery == Init /\ [][NextQuery]_vars

----------------------------------------------------------------------------
(* ordersService, BaseRepository and OrdersRepository.  None of their          *)
(* operations takes a tenant; t is the tenant of the request that makes the    *)
(* call, which the operation never sees.                                       *)

CanCallLegacy == ncalls < MaxCalls

OrderIds == 1..uuid

\* Array.prototype.findIndex: the first index whose order has this id, 0 for -1
FindIndex(store, id) ==
    IF \E i \in 1..Len(store) : store[i].id = id
    THEN CHOOSE i \in 1..Len(store) : store[i].id = id /\ \A j \in 1..(i - 1) : store[j].id # id
    ELSE 0

\* Array.prototype.filter on userId
FilterByUserId(store, userId) == {store[i] : i \in {j \in 1..Len(store) : store[j].userId = userId}}

Elements(store) == {store[i] : i \in 1..Len(store)}

\* The row the INSERT of OrdersRepository.create writes
OrderRow(order) ==
    [id |-> order.id, user_id |-> order.userId, status |-> order.status,
     nft_token_ids |-> order.nftTokenIds, created_at |-> order.createdAt,
     updated_at |-> order.updatedAt]

\* OrdersRepository.mapRow
mapRow(row) ==
    [id |-> row.id, userId |-> row.user_id, status |-> row.status,
     nftTokenIds |-> row.nft_token_ids, createdAt |-> row.created_at,
     updatedAt |-> row.updated_at]

\* { ...this.memoryStore[index], ...data }
MergeOrder(order, data) ==
    [order EXCEPT !.status = IF data.status # Absent THEN data.status ELSE @]

\* UPDATE orders SET [status = $2,] updated_at = $n WHERE id = $1
UpdatedOrderRow(row, data, date) ==
    [row EXCEPT !.status = IF data.status # Absent THEN data.status ELSE @,
                !.updated_at = date]

LegacyOutcome(op, t, returned, modified) ==
    [op |-> op, tenant |-> t, returned |-> returned \ {NoOrder}, modified |-> modified]

createOrder(t, userId) ==
    /\ CanCallLegacy
    /\ LET order == [id |-> uuid, userId |-> userId, status |-> "pending",
                     nftTokenIds |-> << >>, createdAt |-> now, updatedAt |-> now]
       IN /\ orders' = Append(orders, order)
          /\ lret' = LegacyOutcome("createOrder", t, {order}, {})
    /\ uuid' = uuid + 1
    /\ orderOwner' = Append(orderOwner, t)
    /\ ncalls' = ncalls + 1
    /\ UNCHANGED <<memoryStore, pgOrders, dbType, now>>
    /\ UNCHANGED tenantRepoVars
    /\ UNCHANGED httpVars
    /\ UNCHANGED serviceVars
    /\ UNCHANGED handlerVars

getOrder(t, orderId) ==
    /\ CanCallLegacy
    /\ LET i == FindIndex(orders, orderId)
       IN lret' = LegacyOutcome("getOrder", t, {IF i > 0 THEN orders[i] ELSE NoOrder}, {})
    /\ ncalls' = ncalls + 1
    /\ UNCHANGED <<orders, memoryStore, pgOrders, dbType, uuid, orderOwner, now>>
    /\ UNCHANGED tenantRepoVars
    /\ UNCHANGED httpVars
    /\ UNCHANGED serviceVars
    /\ UNCHANGED handlerVars

getUserOrders(t, userId) ==
    /\ CanCallLegacy
    /\ lret' = LegacyOutcome("getUserOrders", t, FilterByUserId(orders, userId), {})
    /\ ncalls' = ncalls + 1
    /\ UNCHANGED <<orders, memoryStore, pgOrders, dbType, uuid, orderOwner, now>>
    /\ UNCHANGED tenantRepoVars
    /\ UNCHANGED httpVars
    /\ UNCHANGED serviceVars
    /\ UNCHANGED handlerVars

updateOrderStatus(t, orderId, status) ==
    /\ CanCallLegacy
    /\ LET i == FindIndex(orders, orderId)
       IN IF i > 0
          THEN /\ orders' = [orders EXCEPT ![i].status = status, ![i].updatedAt = now]
               /\ lret' = LegacyOutcome("updateOrderStatus", t, {orders'[i]}, {orderId})
          ELSE /\ orders' = orders
               /\ lret' = LegacyOutcome("updateOrderStatus", t, {}, {})
    /\ ncalls' = ncalls + 1
    /\ UNCHANGED <<memoryStore, pgOrders, dbType, uuid, orderOwner, now>>
    /\ UNCHANGED tenantRepoVars
    /\ UNCHANGED httpVars
    /\ UNCHANGED serviceVars
    /\ UNCHANGED handlerVars

OrdersRepository_create(t, userId) ==
    /\ CanCallLegacy
    /\ LET order == [id |-> uuid, userId |-> userId, status |-> "pending",
                     nftTokenIds |-> << >>, createdAt |-> now, updatedAt |-> now]
       IN /\ IF dbType = "memory"
             THEN /\ memoryStore' = Append(memoryStore, order)
                  /\ pgOrders' = pgOrders
             ELSE /\ pgOrders' = pgOrders \cup {OrderRow(order)}
                  /\ memoryStore' = memoryStore
          /\ lret' = LegacyOutcome("OrdersRepository.create", t, {order}, {})
    /\ uuid' = uuid + 1
    /\ orderOwner' = Append(orderOwner, t)
    /\ ncalls' = ncalls + 1
    /\ UNCHANGED <<orders, dbType, now>>
    /\ UNCHANGED tenantRepoVars
    /\ UNCHANGED httpVars
    /\ UNCHANGED serviceVars
    /\ UNCHANGED handlerVars

BaseRepository_findAll(t) ==
    /\ CanCallLegacy
    /\ lret' = LegacyOutcome("BaseRepository.findAll", t,
                             IF dbType = "memory"
                             THEN Elements(memoryStore)
                             ELSE {mapRow(row) : row \in pgOrders}, {})
    /\ ncalls' = ncalls + 1
    /\ UNCHANGED <<orders, memoryStore, pgOrders, dbType, uuid, orderOwner, now>>
    /\ UNCHANGED tenantRepoVars
    /\ UNCHANGED httpVars
    /\ UNCHANGED serviceVars
    /\ UNCHANGED handlerVars

BaseRepository_findById(t, id) ==
    /\ CanCallLegacy
    /\ lret' = LegacyOutcome("BaseRepository.findById", t,
                             IF dbType = "memory"
                             THEN LET i == FindIndex(memoryStore, id)
                                  IN {IF i > 0 THEN memoryStore[i] ELSE NoOrder}
                             ELSE {mapRow(row) : row \in {r \in pgOrders : r.id = id}}, {})
    /\ ncalls' = ncalls + 1
    /\ UNCHANGED <<orders, memoryStore, pgOrders, dbType, uuid, orderOwner, now>>
    /\ UNCHANGED tenantRepoVars
    /\ UNCHANGED httpVars
    /\ UNCHANGED serviceVars
    /\ UNCHANGED handlerVars

OrdersRepository_update(t, id, data) ==
    /\ CanCallLegacy
    /\ IF dbType = "memory"
       THEN LET index == FindIndex(memoryStore, id)
            IN /\ IF index > 0
                  THEN /\ memoryStore' = [memoryStore EXCEPT ![index] = MergeOrder(@, data)]
                       /\ lret' = LegacyOutcome("OrdersRepository.update", t,
                                                {memoryStore'[index]}, {id})
                  ELSE /\ memoryStore' = memoryStore
                       /\ lret' = LegacyOutcome("OrdersRepository.update", t, {}, {})
               /\ pgOrders' = pgOrders
       ELSE LET matched == {r \in pgOrders : r.id = id}
                written == {UpdatedOrderRow(r, data, now) : r \in matched}
            IN /\ pgOrders' = (pgOrders \ matched) \cup written
               /\ lret' = LegacyOutcome("OrdersRepository.update", t,
                                        {mapRow(r) : r \in written}, {r.id : r \in matched})
               /\ memoryStore' = memoryStore
    /\ ncalls' = ncalls + 1
    /\ UNCHANGED <<orders, dbType, uuid, orderOwner, now>>
    /\ UNCHANGED tenantRepoVars
    /\ UNCHANGED httpVars
    /\ UNCHANGED serviceVars
    /\ UNCHANGED handlerVars

\* !value for a string or undefined
Falsy(value) == value = Absent \/ value = ""

\* res.status(status).json(body), with the req.params.orderId and the req.body
\* it answers
HandlerResponse(handler, orderId, request, status, body) ==
    [handler |-> handler, orderId |-> orderId, request |-> request, status |-> status,
     body |-> body]

\* Variant: an order that is not found is added
UpdatedOrderStatus_Upsert(store, orderId, status, clock) ==
    LET i == FindIndex(store, orderId)
    IN IF i > 0
       THEN [store EXCEPT ![i].status = status, ![i].updatedAt = clock]
       ELSE Append(store, [NoOrder EXCEPT !.id = orderId, !.status = status])

\* ordersService.updateOrderStatus on the array
UpdatedOrderStatus(store, orderId, status, clock) ==
    LET i == FindIndex(store, orderId)
    IN IF i > 0 THEN [store EXCEPT ![i].status = status, ![i].updatedAt = clock] ELSE store

\* ordersService.addNFTTokenToOrder on the array
AddedNFTToken(store, orderId, tokenId, clock) ==
    LET i == FindIndex(store, orderId)
    IN IF i > 0
       THEN [store EXCEPT ![i].nftTokenIds = Append(@, tokenId), ![i].updatedAt = clock]
       ELSE store

\* ordersService.createPayment: the Payment it pushes
NewPayment(id, orderId, body, clock) ==
    [id |-> id, orderId |-> orderId, amount |-> body.amount, currency |-> body.currency,
     status |-> "pending", paymentMethod |-> body.paymentMethod, stripeChargeId |-> NoCharge,
     createdAt |-> clock, updatedAt |-> clock]

\* Variant: the payment is left pending
UpdatedPaymentStatus_Pending(store, paymentId, status, stripeChargeId, clock) ==
    LET i == FindIndex(store, paymentId)
    IN IF i > 0 THEN [store EXCEPT ![i].updatedAt = clock] ELSE store

\* ordersService.updatePaymentStatus on the array; the charge id the handler
\* passes is never empty
UpdatedPaymentStatus(store, paymentId, status, stripeChargeId, clock) ==
    LET i == FindIndex(store, paymentId)
    IN IF i > 0
       THEN [store EXCEPT ![i].status = status, ![i].stripeChargeId = stripeChargeId,
                          ![i].updatedAt = clock]
       ELSE store

\* ordersService.recordNFTMintTransaction: the NFTMintTransaction it pushes
NewMintTransaction(id, orderId, body, clock) ==
    [id |-> id, orderId |-> orderId, contractAddress |-> body.contractAddress,
     recipientAddress |-> body.recipientAddress, tokenId |-> body.tokenId,
     status |-> "pending", transactionHash |-> NoHash, createdAt |-> clock,
     updatedAt |-> clock]

\* ordersService.updateMintTransactionStatus on the array
UpdatedMintTransactionStatus(store, txId, status, transactionHash, clock) ==
    LET i == FindIndex(store, txId)
    IN IF i > 0
       THEN [store EXCEPT ![i].status = status, ![i].transactionHash = transactionHash,
                          ![i].updatedAt = clock]
       ELSE store

\* What every order handler leaves alone
HandlerFrame ==
    /\ ncalls' = ncalls + 1
    /\ UNCHANGED <<memoryStore, pgOrders, dbType, lret, now>>
    /\ UNCHANGED tenantRepoVars
    /\ UNCHANGED httpVars
    /\ UNCHANGED serviceVars

\* POST /orders
createOrderHandler(body) ==
    /\ CanCallLegacy
    /\ IF Falsy(body.userId) \/ Falsy(body.ticketId) \/ body.quantity = 0
          \/ Falsy(body.totalAmount)
       THEN /\ hres' = HandlerResponse("createOrder", 0, body, 400, Absent)
            /\ UNCHANGED <<orders, uuid, orderOwner>>
       ELSE LET order == [id |-> uuid, userId |-> body.userId, status |-> "pending",
                          nftTokenIds |-> << >>, createdAt |-> now, updatedAt |-> now]
            IN /\ orders' = Append(orders, order)
               /\ uuid' = uuid + 1
               /\ orderOwner' = Append(orderOwner, Absent)
               /\ hres' = HandlerResponse("createOrder", order.id, body, 201, order)
    /\ UNCHANGED <<payments, nftTransactions>>
    /\ HandlerFrame

\* GET /orders/:orderId
getOrderHandler(orderId) ==
    /\ CanCallLegacy
    /\ LET i == FindIndex(orders, orderId)
       IN hres' = IF i = 0
                  THEN HandlerResponse("getOrder", orderId, Absent, 404, Absent)
                  ELSE HandlerResponse("getOrder", orderId, Absent, 200, orders[i])
    /\ UNCHANGED <<orders, uuid, orderOwner, payments, nftTransactions>>
    /\ HandlerFrame

\* PATCH /orders/:orderId/status
updateOrderStatusHandler(orderId, body) ==
    /\ CanCallLegacy
    /\ IF Falsy(body.status)
       THEN /\ hres' = HandlerResponse("updateOrderStatus", orderId, body, 400, Absent)
            /\ orders' = orders
       ELSE /\ orders' = UpdatedOrderStatus(orders, orderId, body.status, now)
            /\ LET i == FindIndex(orders, orderId)
               IN hres' = IF i = 0
                          THEN HandlerResponse("updateOrderStatus", orderId, body, 404, Absent)
                          ELSE HandlerResponse("updateOrderStatus", orderId, body, 200, orders'[i])
    /\ UNCHANGED <<uuid, orderOwner, payments, nftTransactions>>
    /\ HandlerFrame

\* POST /orders/:orderId/payments
processPayment(orderId, body) ==
    /\ CanCallLegacy
    /\ IF Falsy(body.amount) \/ Falsy(body.currency) \/ Falsy(body.paymentMethod)
       THEN /\ hres' = HandlerResponse("processPayment", orderId, body, 400, Absent)
            /\ UNCHANGED <<orders, payments, uuid, orderOwner>>
       ELSE IF FindIndex(orders, orderId) = 0
       THEN /\ hres' = HandlerResponse("processPayment", orderId, body, 404, Absent)
            /\ UNCHANGED <<orders, payments, uuid, orderOwner>>
       ELSE LET payment == NewPayment(uuid, orderId, body, now)
            IN /\ payments' = UpdatedPaymentStatus(Append(payments, payment), payment.id,
                                                   "succeeded", <<"charge_", payment.id>>, now)
               /\ orders' = UpdatedOrderStatus(orders, orderId, "completed", now)
               /\ uuid' = uuid + 1
               /\ orderOwner' = Append(orderOwner, Absent)
               /\ hres' = HandlerResponse("processPayment", orderId, body, 201,
                               [order |-> orders'[FindIndex(orders', orderId)],
                                payment |-> payments'[FindIndex(payments', payment.id)]])
    /\ UNCHANGED nftTransactions
    /\ HandlerFrame

\* POST /orders/:orderId/mint-nft
mintNFT(orderId, body) ==
    /\ CanCallLegacy
    /\ IF Falsy(body.contractAddress) \/ Falsy(body.recipientAddress) \/ Falsy(body.tokenId)
       THEN /\ hres' = HandlerResponse("mintNFT", orderId, body, 400, Absent)
            /\ UNCHANGED <<orders, nftTransactions, uuid, orderOwner>>
       ELSE IF FindIndex(orders, orderId) = 0
       THEN /\ hres' = HandlerResponse("mintNFT", orderId, body, 404, Absent)
            /\ UNCHANGED <<orders, nftTransactions, uuid, orderOwner>>
       ELSE LET tx == NewMintTransaction(uuid, orderId, body, now)
            IN /\ nftTransactions' =
                      UpdatedMintTransactionStatus(Append(nftTransactions, tx), tx.id,
                                                   "minted", <<"0xtxhash", tx.id>>, now)
               /\ orders' = AddedNFTToken(orders, orderId, body.tokenId, now)
               /\ uuid' = uuid + 1
               /\ orderOwner' = Append(orderOwner, Absent)
               /\ hres' = HandlerResponse("mintNFT", orderId, body, 201,
                               [order |-> orders'[FindIndex(orders', orderId)],
                                mintTransaction |->
                                    nftTransactions'[FindIndex(nftTransactions', tx.id)]])
    /\ UNCHANGED payments
    /\ HandlerFrame

\* The requests the order routes receive, one at a time
NextHandlers ==
    \/ Tick
    \/ \E b \in OrderBodies : createOrderHandler(b)
    \/ \E id \in OrderIds : getOrderHandler(id)
    \/ \E id \in OrderIds, b \in StatusBodies : updateOrderStatusHandler(id, b)
    \/ \E id \in OrderIds, b \in PaymentBodies : processPayment(id, b)
    \/ \E id \in OrderIds, b \in MintBodies : mintNFT(id, b)

SpecHandlers == Init /\ [][NextHandlers]_vars

\* What a repository call returns in each mode when the same calls are made
\* of a repository in memory mode and of one in PostgreSQL mode
SideBySide(op, memory, postgres) ==
    [op |-> op, memory |-> memory \ {NoOrder}, postgres |-> postgres \ {NoOrder}]

\* What the calls made side by side leave alone
SideBySideFrame ==
    /\ ncalls' = ncalls + 1
    /\ UNCHANGED <<orders, dbType, orderOwner, now>>
    /\ UNCHANGED tenantRepoVars
    /\ UNCHANGED httpVars
    /\ UNCHANGED serviceVars
    /\ UNCHANGED handlerVars

\* OrdersRepository.create(data) in both modes, uuidv4() giving both the same id
SideBySide_create(userId) ==
    /\ CanCallLegacy
    /\ LET order == [id |-> uuid, userId |-> userId, status |-> "pending",
                     nftTokenIds |-> << >>, createdAt |-> now, updatedAt |-> now]
       IN /\ memoryStore' = Append(memoryStore, order)
          /\ pgOrders' = pgOrders \cup {OrderRow(order)}
          /\ lret' = SideBySide("create", {order}, {order})
    /\ uuid' = uuid + 1
    /\ SideBySideFrame

\* OrdersRepository.update(id, data) in both modes
SideBySide_update(id, data) ==
    /\ CanCallLegacy
    /\ LET index == FindIndex(memoryStore, id)
           matched == {r \in pgOrders : r.id = id}
           written == {UpdatedOrderRow(r, data, now) : r \in matched}
       IN /\ memoryStore' = IF index > 0
                            THEN [memoryStore EXCEPT ![index] = MergeOrder(@, data)]
                            ELSE memoryStore
          /\ pgOrders' = (pgOrders \ matched) \cup written
          /\ lret' = SideBySide("update",
                                {IF index > 0 THEN memoryStore'[index] ELSE NoOrder},
                                {mapRow(r) : r \in written})
    /\ uuid' = uuid
    /\ SideBySideFrame

\* BaseRepository.findById(id) in both modes
SideBySide_findById(id) ==
    /\ CanCallLegacy
    /\ LET i == FindIndex(memoryStore, id)
       IN lret' = SideBySide("findById",
                             {IF i > 0 THEN memoryStore[i] ELSE NoOrder},
                             {mapRow(row) : row \in {r \in pgOrders : r.id = id}})
    /\ UNCHANGED <<memoryStore, pgOrders, uuid>>
    /\ SideBySideFrame

\* BaseRepository.find('user_id = $1', [userId]) in both modes: memory mode
\* returns a copy of the whole store
SideBySide_find(userId) ==
    /\ CanCallLegacy
    /\ lret' = SideBySide("find", Elements(memoryStore),
                          {mapRow(row) : row \in {r \in pgOrders : r.user_id = userId}})
    /\ UNCHANGED <<memoryStore, pgOrders, uuid>>
    /\ SideBySideFrame

\* The same calls made of a repository in each mode
NextBackends ==
    \/ Tick
    \/ \E u \in LegacyUserIds : SideBySide_create(u)
    \/ \E id \in OrderIds, d \in OrderDataSet : SideBySide_update(id, d)
    \/ \E id \in OrderIds : SideBySide_findById(id)
    \/ \E u \in LegacyUserIds : SideBySide_find(u)

SpecBackends == Init /\ [][NextBackends]_vars

NextLegacy ==
    \/ Tick
    \/ \E t \in Tenants, u \in LegacyUserIds : createOrder(t, u)
    \/ \E t \in Tenants, id \in OrderIds : getOrder(t, id)
    \/ \E t \in Tenants, u \in LegacyUserIds : getUserOrders(t, u)
    \/ \E t \in Tenants, id \in OrderIds, s \in Statuses : updateOrderStatus(t, id, s)
    \/ \E t \in Tenants, u \in LegacyUserIds : OrdersRepository_create(t, u)
    \/ \E t \in Tenants : BaseRepository_findAll(t)
    \/ \E t \in Tenants, id \in OrderIds : BaseRepository_findById(t, id)
    \/ \E t \in Tenants, id \in OrderIds, d \in OrderDataSet : OrdersRepository_update(t, id, d)

SpecLegacy == Init /\ [][NextLegacy]_vars

----------------------------------------------------------------------------
(* TenantService: quotas and suspension *)

CanCallService(p) == spc[p] = "idle" /\ pc[p] = "idle" /\ ncalls < MaxServiceCalls

\* SELECT * FROM tenant_quotas WHERE tenant_id = $1
QuotaRowsOf(rows, tenantId) == {q \in rows : q.tenant_id = tenantId}

\* getQuotas: the TenantQuota it builds from the row
TenantQuota(quota) ==
    [tenantId |-> quota.tenant_id,
     maxUsers |-> quota.max_users, usedUsers |-> quota.used_users,
     maxOrders |-> quota.max_orders, usedOrders |-> quota.used_orders,
     maxEvents |-> quota.max_events, usedEvents |-> quota.used_events,
     storageQuota |-> quota.storage_quota_mb, usedStorage |-> quota.used_storage_mb,
     apiCallsPerDay |-> quota.api_calls_per_day, usedApiCalls |-> quota.used_api_calls,
     resetDate |-> quota.reset_date]

\* getQuotas: <<settled, error, quota>>; db.one rejects unless exactly one row comes back
GetQuotasOutcome(rows, tenantId) ==
    LET found == QuotaRowsOf(rows, tenantId)
    IN IF Cardinality(found) = 1
       THEN <<"resolved", NoError, TenantQuota(CHOOSE q \in found : TRUE)>>
       ELSE <<"rejected", StorageError, NoQuota>>

QuotaExceededError(resource, tenantId) ==
    CASE resource = "users" -> <<"User quota exceeded for tenant", tenantId>>
      [] resource = "orders" -> <<"Order quota exceeded for tenant", tenantId>>
      [] resource = "events" -> <<"Event quota exceeded for tenant", tenantId>>
      [] OTHER -> <<"API calls quota exceeded for tenant", tenantId>>

\* Variant: the comparison is used > max
QuotaExceeded_Strict(quota, resource) ==
    CASE resource = "users" -> quota.usedUsers > quota.maxUsers
      [] resource = "orders" -> quota.usedOrders > quota.maxOrders
      [] resource = "events" -> quota.usedEvents > quota.maxEvents
      [] resource = "api_calls" -> quota.usedApiCalls > quota.apiCallsPerDay
      [] OTHER -> FALSE

\* validateQuota: the switch over resource
QuotaExceeded(quota, resource) ==
    CASE resource = "users" -> quota.usedUsers >= quota.maxUsers
      [] resource = "orders" -> quota.usedOrders >= quota.maxOrders
      [] resource = "events" -> quota.usedEvents >= quota.maxEvents
      [] resource = "api_calls" -> quota.usedApiCalls >= quota.apiCallsPerDay
      [] OTHER -> FALSE

getQuotaFieldForResource(resource) ==
    CASE resource = "users" -> "used_users"
      [] resource = "orders" -> "used_orders"
      [] resource = "events" -> "used_events"
      [] resource = "api_calls" -> "used_api_calls"
      [] resource = "storage" -> "used_storage_mb"
      [] OTHER -> "used_orders"

\* Variant: SET field = $2
IncrementedQuota_Assigned(quota, field, amount) ==
    [quota EXCEPT ![field] = amount]

\* UPDATE tenant_quotas SET ${field} = ${field} + $2, updated_at = NOW()
IncrementedQuota(quota, field, amount) ==
    [quota EXCEPT ![field] = @ + amount]

ServiceOutcome(op, tenantId, resource, amount, settled, error, quota, value) ==
    [op |-> op, tenantId |-> tenantId, resource |-> resource, amount |-> amount,
     settled |-> settled, error |-> error, quota |-> quota, value |-> value]

\* getQuotas(tenantId)
GetQuotas(p, tenantId) ==
    /\ CanCallService(p)
    /\ LET got == GetQuotasOutcome(tenant_quotas, tenantId)
       IN sret' = [sret EXCEPT ![p] =
                ServiceOutcome("getQuotas", tenantId, Absent, 0, got[1], got[2], got[3], FALSE)]
    /\ ncalls' = ncalls + 1
    /\ actor' = p
    /\ UNCHANGED <<tenant_quotas, tenants, spc, scall, quota0, added, audit_logs, errors, now>>
    /\ UNCHANGED repositoryVars
    /\ UNCHANGED <<legacyVars, tenant_settings, httpVars, onboarded>>

\* validateQuota(tenantId, resource)
ValidateQuota(p, tenantId, resource) ==
    /\ CanCallService(p)
    /\ LET got == GetQuotasOutcome(tenant_quotas, tenantId)
       IN sret' = [sret EXCEPT ![p] =
                IF got[1] = "rejected"
                THEN ServiceOutcome("validateQuota", tenantId, resource, 0, got[1], got[2], NoQuota, FALSE)
                ELSE IF QuotaExceeded(got[3], resource)
                THEN ServiceOutcome("validateQuota", tenantId, resource, 0, "rejected",
                                    QuotaExceededError(resource, tenantId), NoQuota, FALSE)
                ELSE ServiceOutcome("validateQuota", tenantId, resource, 0, "resolved",
                                    NoError, NoQuota, TRUE)]
    /\ ncalls' = ncalls + 1
    /\ actor' = p
    /\ UNCHANGED <<tenant_quotas, tenants, spc, scall, quota0, added, audit_logs, errors, now>>
    /\ UNCHANGED repositoryVars
    /\ UNCHANGED <<legacyVars, tenant_settings, httpVars, onboarded>>

\* incrementQuota(tenantId, resource, amount)
IncrementQuota(p, tenantId, resource, amount) ==
    /\ CanCallService(p)
    /\ LET field == getQuotaFieldForResource(resource)
           matched == QuotaRowsOf(tenant_quotas, tenantId)
       IN /\ tenant_quotas' = (tenant_quotas \ matched)
                                \cup {IncrementedQuota(q, field, amount) : q \in matched}
          /\ added' = IF matched = {} THEN added
                      ELSE [added EXCEPT ![tenantId][field] = @ + amount]
    /\ sret' = [sret EXCEPT ![p] =
            ServiceOutcome("incrementQuota", tenantId, resource, amount, "resolved",
                           NoError, NoQuota, FALSE)]
    /\ ncalls' = ncalls + 1
    /\ actor' = p
    /\ UNCHANGED <<tenants, spc, scall, quota0, audit_logs, errors, now>>
    /\ UNCHANGED repositoryVars
    /\ UNCHANGED <<legacyVars, tenant_settings, httpVars, onboarded>>

\* UPDATE tenants SET status = 'suspended', metadata = jsonb_set(...) WHERE id = $1
SuspendedRow(row, reason) ==
    [row EXCEPT !.status = "suspended", !.suspension_reason = reason]

\* The row suspendTenant inserts into audit_logs
SuspendAuditEntry(tenantId) ==
    [tenant_id |-> tenantId, user_id |-> Absent, action |-> "SUSPEND_TENANT",
     resource_id |-> 0, changes |-> NoData, previous |-> NoRow]

\* suspendTenant(tenantId, reason): the UPDATE of tenants
SuspendTenant(p, tenantId, reason) ==
    /\ CanCallService(p)
    /\ LET matched == {r \in tenants : r.id = tenantId}
       IN tenants' = (tenants \ matched) \cup {SuspendedRow(r, reason) : r \in matched}
    /\ scall' = [scall EXCEPT ![p] = [op |-> "suspendTenant", tenantId |-> tenantId, reason |-> reason]]
    /\ spc' = [spc EXCEPT ![p] = "suspend_audit"]
    /\ ncalls' = ncalls + 1
    /\ actor' = p
    /\ UNCHANGED <<tenant_quotas, sret, quota0, added, audit_logs, errors, now>>
    /\ UNCHANGED repositoryVars
    /\ UNCHANGED <<legacyVars, tenant_settings, httpVars, onboarded>>

\* suspendTenant: what it settles with after the INSERT INTO audit_logs it awaits
SuspendOutcome(c, inserted) ==
    IF inserted
    THEN ServiceOutcome(c.op, c.tenantId, Absent, 0, "resolved", NoError, NoQuota, FALSE)
    ELSE ServiceOutcome(c.op, c.tenantId, Absent, 0, "rejected", StorageError, NoQuota, FALSE)

\* suspendTenant: the INSERT INTO audit_logs
SuspendAudit(p, inserted) ==
    /\ spc[p] = "suspend_audit"
    /\ audit_logs' = IF inserted THEN InsertAuditLog(audit_logs, SuspendAuditEntry(scall[p].tenantId))
                     ELSE audit_logs
    /\ sret' = [sret EXCEPT ![p] = SuspendOutcome(scall[p], inserted)]
    /\ spc' = [spc EXCEPT ![p] = "idle"]
    /\ scall' = [scall EXCEPT ![p] = NoServiceCall]
    /\ UNCHANGED <<tenant_quotas, tenants, quota0, added, errors, now, ncalls, actor>>
    /\ UNCHANGED repositoryVars
    /\ UNCHANGED <<legacyVars, tenant_settings, httpVars, onboarded>>

\* The resources the increments tried name: one with a ceiling check, the
\* daily one, and one that getQuotaFieldForResource does not know
IncrementedResources == {"orders", "api_calls", "tickets"}

\* The default amount and its opposite
UnitAmounts == {0 - 1, DefaultAmount}

NextService ==
    \/ \E p \in Callers, t \in Tenants, r \in CheckedResources : ValidateQuota(p, t, r)
    \/ \E p \in Callers, t \in Tenants, r \in IncrementedResources, a \in UnitAmounts :
            IncrementQuota(p, t, r, a)

SpecService == Init /\ [][NextService]_vars

\* The daily counter as the clock passes reset_date
NextRollover ==
    \/ Tick
    \/ \E p \in Callers, t \in Tenants : GetQuotas(p, t)
    \/ \E p \in Callers, t \in Tenants : ValidateQuota(p, t, "api_calls")
    \/ \E p \in Callers, t \in Tenants : IncrementQuota(p, t, "api_calls", DefaultAmount)

SpecRollover == Init /\ [][NextRollover]_vars

NextSuspend ==
    \/ Tick
    \/ \E p \in Callers, t \in Tenants, x \in Reasons : SuspendTenant(p, t, x)
    \/ \E p \in Callers, inserted \in BOOLEAN : SuspendAudit(p, inserted)

SpecSuspend == Init /\ [][NextSuspend]_vars

\* A request that creates an order through the tenant repository, next to
\* the quota calls that count orders
NextQuotaCreate ==
    \/ \E p \in Callers, t \in Tenants : spc[p] = "idle" /\ Create(p, t, QueryData, NoOptions)
    \/ \E p \in Callers, t \in Tenants : ValidateQuota(p, t, "orders")
    \/ \E p \in Callers, t \in Tenants : IncrementQuota(p, t, "orders", DefaultAmount)

SpecQuotaCreate == Init /\ [][NextQuotaCreate]_vars

\* A request that gates a creation on the quota: validateQuota, and once it
\* has passed, incrementQuota for the same tenant and resource
GatePassed(p) == sret[p].op = "validateQuota" /\ sret[p].settled = "resolved"

\* One request at a time, incrementing by any amount
SerialCallers == {1}

NextSerial ==
    \/ \E p \in SerialCallers, t \in Tenants, r \in CheckedResources :
            ~GatePassed(p) /\ ValidateQuota(p, t, r)
    \/ \E p \in SerialCallers, a \in Amounts :
            GatePassed(p) /\ IncrementQuota(p, sret[p].tenantId, sret[p].resource, a)

SpecSerial == Init /\ [][NextSerial]_vars

\* Several requests at once, each incrementing by the default amount
NextGate ==
    \/ \E p \in Callers, t \in Tenants, r \in CheckedResources :
            ~GatePassed(p) /\ ValidateQuota(p, t, r)
    \/ \E p \in Callers :
            GatePassed(p) /\ IncrementQuota(p, sret[p].tenantId, sret[p].resource, DefaultAmount)

SpecGate == Init /\ [][NextGate]_vars

\* gen_random_uuid(): an id no row of tenants has
NewTenantId == TenantIdPool[Cardinality(tenants) - Cardinality(Tenants) + 1]

\* createTenant(data): the INSERT INTO tenants, which storage refuses when
\* the slug is taken (slug is UNIQUE) and may refuse for reasons of its own
CreateTenant(p, data, inserted) ==
    /\ CanCallService(p)
    /\ inserted => \A r \in tenants : r.slug # data.slug
    /\ IF inserted
       THEN /\ tenants' = tenants \cup {TenantRow(NewTenantId, data)}
            /\ scall' = [scall EXCEPT ![p] = [op |-> "createTenant", tenantId |-> NewTenantId,
                                              reason |-> Absent, data |-> data]]
            /\ spc' = [spc EXCEPT ![p] = "create_settings"]
            /\ sret' = sret
       ELSE /\ sret' = [sret EXCEPT ![p] =
                            ServiceOutcome("createTenant", Absent, Absent, 0, "rejected",
                                           StorageError, NoQuota, FALSE)]
            /\ UNCHANGED <<tenants, scall, spc>>
    /\ ncalls' = ncalls + 1
    /\ actor' = p
    /\ UNCHANGED <<tenant_quotas, tenant_settings, quota0, added, audit_logs, errors, now>>
    /\ UNCHANGED repositoryVars
    /\ UNCHANGED <<legacyVars, httpVars, onboarded>>

\* createTenant: the INSERT INTO tenant_settings
CreateTenantSettings(p, inserted) ==
    /\ spc[p] = "create_settings"
    /\ IF inserted
       THEN /\ tenant_settings' = tenant_settings \cup {SettingsRow(scall[p].tenantId)}
            /\ spc' = [spc EXCEPT ![p] = "create_quotas"]
            /\ UNCHANGED <<scall, sret>>
       ELSE /\ sret' = [sret EXCEPT ![p] =
                            ServiceOutcome("createTenant", scall[p].tenantId, Absent, 0,
                                           "rejected", StorageError, NoQuota, FALSE)]
            /\ spc' = [spc EXCEPT ![p] = "idle"]
            /\ scall' = [scall EXCEPT ![p] = NoServiceCall]
            /\ UNCHANGED tenant_settings
    /\ UNCHANGED <<tenants, tenant_quotas, quota0, added, audit_logs, errors, now, ncalls, actor>>
    /\ UNCHANGED repositoryVars
    /\ UNCHANGED <<legacyVars, httpVars, onboarded>>

\* createTenant: the INSERT INTO tenant_quotas and the return of the TenantInfo
CreateTenantQuotas(p, inserted) ==
    /\ spc[p] = "create_quotas"
    /\ tenant_quotas' =
          IF inserted
          THEN tenant_quotas \cup
               {[QuotaRow(scall[p].tenantId, <<DefaultMaxUsers, DefaultMaxOrders,
                                                DefaultMaxEvents, DefaultApiCallsPerDay>>)
                    EXCEPT !.reset_date = now + OneDay]}
          ELSE tenant_quotas
    /\ sret' = [sret EXCEPT ![p] =
                    ServiceOutcome("createTenant", scall[p].tenantId, Absent, 0,
                                   IF inserted THEN "resolved" ELSE "rejected",
                                   IF inserted THEN NoError ELSE StorageError, NoQuota, FALSE)]
    /\ onboarded' = IF inserted
                     THEN onboarded \cup {[id |-> scall[p].tenantId, data |-> scall[p].data]}
                     ELSE onboarded
    /\ spc' = [spc EXCEPT ![p] = "idle"]
    /\ scall' = [scall EXCEPT ![p] = NoServiceCall]
    /\ UNCHANGED <<tenants, tenant_settings, quota0, added, audit_logs, errors, now, ncalls, actor>>
    /\ UNCHANGED repositoryVars
    /\ UNCHANGED <<legacyVars, httpVars>>

\* getTenantSettings: the TenantSettings it builds from the row db.oneOrNone
\* found, or the defaults when it found none
TenantSettings(rows, tenantId) ==
    LET found == {r \in rows : r.tenant_id = tenantId}
    IN IF found = {}
       THEN DefaultSettings
       ELSE LET settings == CHOOSE r \in found : TRUE
            IN [maxUsers |-> settings.max_users, maxOrders |-> settings.max_orders,
                maxEvents |-> settings.max_events,
                dataResidency |-> settings.data_residency,
                encryptionEnabled |-> settings.encryption_enabled]

\* getTenantInfo: the TenantInfo it returns
TenantInfo(tenant, settings) ==
    [id |-> tenant.id, name |-> tenant.name, slug |-> tenant.slug, email |-> tenant.email,
     plan |-> tenant.plan, status |-> tenant.status, settings |-> settings]

TenantNotFound(tenantId) == <<"Tenant not found", tenantId>>

\* getTenantSettings(tenantId)
GetTenantSettings(p, tenantId) ==
    /\ CanCallService(p)
    /\ sret' = [sret EXCEPT ![p] =
            ServiceOutcome("getTenantSettings", tenantId, Absent, 0, "resolved", NoError,
                           NoQuota, TenantSettings(tenant_settings, tenantId))]
    /\ ncalls' = ncalls + 1
    /\ actor' = p
    /\ UNCHANGED <<tenant_quotas, tenants, spc, scall, quota0, added, audit_logs, errors, now>>
    /\ UNCHANGED repositoryVars
    /\ UNCHANGED <<legacyVars, tenant_settings, httpVars, onboarded>>

\* getTenantInfo(tenantId): the SELECT from tenants (no row is ever soft-deleted)
GetTenantInfo(p, tenantId) ==
    /\ CanCallService(p)
    /\ LET found == {r \in tenants : r.id = tenantId}
       IN IF found = {}
          THEN /\ sret' = [sret EXCEPT ![p] =
                       ServiceOutcome("getTenantInfo", tenantId, Absent, 0, "rejected",
                                      TenantNotFound(tenantId), NoQuota, FALSE)]
               /\ UNCHANGED <<spc, scall>>
          ELSE /\ scall' = [scall EXCEPT ![p] =
                       [op |-> "getTenantInfo", tenantId |-> tenantId, reason |-> Absent,
                        tenant |-> CHOOSE r \in found : TRUE]]
               /\ spc' = [spc EXCEPT ![p] = "info_settings"]
               /\ sret' = sret
    /\ ncalls' = ncalls + 1
    /\ actor' = p
    /\ UNCHANGED <<tenant_quotas, tenants, quota0, added, audit_logs, errors, now>>
    /\ UNCHANGED repositoryVars
    /\ UNCHANGED <<legacyVars, tenant_settings, httpVars, onboarded>>

\* getTenantInfo: the getTenantSettings it awaits and the return of the TenantInfo
GetTenantInfoSettings(p) ==
    /\ spc[p] = "info_settings"
    /\ sret' = [sret EXCEPT ![p] =
            ServiceOutcome("getTenantInfo", scall[p].tenantId, Absent, 0, "resolved", NoError,
                           NoQuota,
                           TenantInfo(scall[p].tenant,
                                      TenantSettings(tenant_settings, scall[p].tenantId)))]
    /\ spc' = [spc EXCEPT ![p] = "idle"]
    /\ scall' = [scall EXCEPT ![p] = NoServiceCall]
    /\ UNCHANGED <<tenant_quotas, tenants, quota0, added, audit_logs, errors, now, ncalls, actor>>
    /\ UNCHANGED repositoryVars
    /\ UNCHANGED <<legacyVars, tenant_settings, httpVars, onboarded>>

\* Tenants are onboarded by concurrent callers; any of the three inserts may fail
NextOnboard ==
    \/ \E p \in Callers, d \in TenantData, inserted \in BOOLEAN : CreateTenant(p, d, inserted)
    \/ \E p \in Callers, inserted \in BOOLEAN : CreateTenantSettings(p, inserted)
    \/ \E p \in Callers, inserted \in BOOLEAN : CreateTenantQuotas(p, inserted)

SpecOnboard == Init /\ [][NextOnboard]_vars

\* The id the reads are tried with: the first that createTenant makes, which
\* names no tenant until then
ReadTenantIds == {TenantIdPool[1]}

\* Tenants are onboarded while their settings, info and quotas are read
NextReads ==
    \/ NextOnboard
    \/ \E p \in Callers, t \in ReadTenantIds : GetTenantSettings(p, t)
    \/ \E p \in Callers, t \in ReadTenantIds : GetTenantInfo(p, t)
    \/ \E p \in Callers : GetTenantInfoSettings(p)
    \/ \E p \in Callers, t \in ReadTenantIds : GetQuotas(p, t)
    \/ \E p \in Callers, t \in ReadTenantIds : ValidateQuota(p, t, "orders")

SpecReads == Init /\ [][NextReads]_vars

\* The options of a call that asks for an audit entry
AuditedOptions == [auditLog |-> TRUE, userId |-> "u1"]

\* Everything that writes to audit_logs: the audited mutations of the
\* repository and the suspension of a tenant, side by side
NextTrail ==
    \/ \E p \in Callers, t \in Tenants :
            spc[p] = "idle" /\ Create(p, t, AuditedData, AuditedOptions)
    \/ \E p \in Callers, t \in Tenants, id \in KnownIds :
            spc[p] = "idle" /\ Update(p, t, id, AuditedChange, AuditedOptions)
    \/ \E p \in Callers : UpdateWrite(p)
    \/ \E p \in Callers, t \in Tenants, id \in KnownIds :
            spc[p] = "idle" /\ Delete(p, t, id, AuditedOptions)
    \/ \E p \in Callers : DeleteWrite(p)
    \/ \E p \in Callers, inserted \in BOOLEAN : LogAudit(p, inserted)
    \/ \E p \in Callers, t \in Tenants, x \in Reasons : SuspendTenant(p, t, x)
    \/ \E p \in Callers, inserted \in BOOLEAN : SuspendAudit(p, inserted)
    \/ \E p \in Callers, t \in Tenants : IncrementQuota(p, t, "orders", DefaultAmount)

SpecTrail == Init /\ [][NextTrail]_vars

----------------------------------------------------------------------------
(* The request pipeline: tenantExtractorMiddleware, the guards and
   generateTenantToken (src/unnamed/part_002).  A middleware runs without
   awaiting anything, so each invocation is one step. *)

\* Number of middleware a request may pass through
MaxMiddleware == 2

\* JavaScript truthiness of a text value: undefined and '' are falsy
Truthy(text) == text # Undefined /\ text # << >>

\* Index of the first delimiter of a text, 0 when it has none
RECURSIVE IndexOf(_, _, _)
IndexOf(text, d, from) ==
    IF from > Len(text) THEN 0
    ELSE IF text[from] = d THEN from
    ELSE IndexOf(text, d, from + 1)

\* String.prototype.split(d): the segments between delimiters, in order
RECURSIVE Split(_, _)
Split(text, d) ==
    LET i == IndexOf(text, d, 1)
    IN IF i = 0 THEN <<text>>
       ELSE <<SubSeq(text, 1, i - 1)>> \o Split(SubSeq(text, i + 1, Len(text)), d)

\* jwt.sign(payload, secret, { expiresIn }): iat is the clock, exp is iat + expiresIn
Sign(payload, secret, expiresIn, clock) ==
    [payload |-> payload, key |-> secret, iat |-> clock, exp |-> clock + expiresIn,
     wellFormed |-> TRUE]

\* The error jwt.verify(token, secret) throws: the structure and the
\* signature are checked before exp
NoJwtError == "none"
JwtError(token, secret, clock) ==
    IF ~token.wellFormed THEN "JsonWebTokenError"
    ELSE IF token.key # secret THEN "JsonWebTokenError"
    ELSE IF clock >= token.exp THEN "TokenExpiredError"
    ELSE NoJwtError

\* The prototype chain of the errors of jsonwebtoken: TokenExpiredError
\* derives from JsonWebTokenError
Superclasses(error) ==
    CASE error = "TokenExpiredError" -> {"TokenExpiredError", "JsonWebTokenError", "Error"}
      [] error = "JsonWebTokenError" -> {"JsonWebTokenError", "Error"}
      [] OTHER -> {"Error"}

\* error instanceof class
InstanceOf(error, class) == class \in Superclasses(error)

\* What jwt.verify returns: the claims with iat and exp
Decoded(token) ==
    [sub |-> token.payload.sub, tenant_id |-> token.payload.tenant_id,
     tenant_name |-> token.payload.tenant_name, role |-> token.payload.role,
     permissions |-> token.payload.permissions, plan |-> token.payload.plan,
     iat |-> token.iat, exp |-> token.exp]

\* Variant: a header of any scheme is taken for a credential
NoBearer_MissingOnly(authHeader) == authHeader = NoHeader

\* !authHeader || !authHeader.startsWith('Bearer ')
NoBearer(authHeader) == authHeader = NoHeader \/ authHeader.scheme # "Bearer "

\* Variant: the subject is tried before the tenant_id claim
ExtractTenantId_SubjectFirst(decoded) ==
    IF decoded.sub # Undefined /\ Truthy(Split(decoded.sub, Delimiter)[1])
    THEN Split(decoded.sub, Delimiter)[1]
    ELSE decoded.tenant_id

\* decoded.tenant_id || decoded.sub?.split('|')[0]
ExtractTenantId(decoded) ==
    IF Truthy(decoded.tenant_id) THEN decoded.tenant_id
    ELSE IF decoded.sub = Undefined THEN Undefined
    ELSE Split(decoded.sub, Delimiter)[1]

\* Variant: the claims are copied without defaults
BuildContext_Copied(decoded, tenantId) ==
    [tenantId |-> tenantId, userId |-> decoded.sub, tenantName |-> decoded.tenant_name,
     plan |-> decoded.plan, role |-> decoded.role, permissions |-> decoded.permissions,
     issuedAt |-> decoded.iat, expiresAt |-> decoded.exp]

\* const tenantContext: TenantContext = { tenantId, userId: decoded.sub, ... }
BuildContext(decoded, tenantId) ==
    [tenantId |-> tenantId,
     userId |-> decoded.sub,
     tenantName |-> decoded.tenant_name,
     plan |-> IF decoded.plan \in {Absent, ""} THEN "free" ELSE decoded.plan,
     role |-> IF decoded.role \in {Absent, ""} THEN "user" ELSE decoded.role,
     permissions |-> IF decoded.permissions = NoPermissions THEN {} ELSE decoded.permissions,
     issuedAt |-> decoded.iat,
     expiresAt |-> decoded.exp]

\* The catch block of tenantExtractorMiddleware: the instanceof tests in
\* the order the code makes them
Catch(error) ==
    IF InstanceOf(error, "JsonWebTokenError")
    THEN <<Response(401, "INVALID_TOKEN")>>
    ELSE IF InstanceOf(error, "TokenExpiredError")
    THEN <<Response(401, "TOKEN_EXPIRED")>>
    ELSE <<NextCall(error)>>

\* tenantExtractorMiddleware(jwtSecret)(req, res, next): the request as it
\* leaves the middleware and what was done with res and next
TenantExtractor(request, jwtSecret, clock) ==
    IF NoBearer(request.authorization)
    THEN [req |-> request, effects |-> <<NextCall(Absent)>>]
    ELSE LET token == request.authorization.credentials
             error == JwtError(token, jwtSecret, clock)
         IN IF error # NoJwtError
            THEN [req |-> request, effects |-> Catch(error)]
            ELSE LET decoded == Decoded(token)
                     tenantId == ExtractTenantId(decoded)
                 IN IF ~Truthy(tenantId)
                    THEN [req |-> request, effects |-> <<Response(401, "INVALID_TOKEN")>>]
                    ELSE LET tenantContext == BuildContext(decoded, tenantId)
                         IN [req |-> [request EXCEPT !.tenantContext = tenantContext,
                                                      !.userId = tenantContext.userId,
                                                      !.tenantId = tenantId],
                             effects |-> <<NextCall(Absent)>>]

\* Variant: the 401 is sent without returning
RequireTenantContext_FallsThrough(request) ==
    IF request.tenantContext = NoContext
    THEN [req |-> request, effects |-> <<Response(401, "TENANT_REQUIRED"), NextCall(Absent)>>]
    ELSE [req |-> request, effects |-> <<NextCall(Absent)>>]

\* requireTenantContext(req, res, next)
RequireTenantContext(request) ==
    IF request.tenantContext = NoContext
    THEN [req |-> request, effects |-> <<Response(401, "TENANT_REQUIRED")>>]
    ELSE [req |-> request, effects |-> <<NextCall(Absent)>>]

\* Variant: the role test is skipped for an admin
RequireRole_AdminPasses(request, allowedRoles) ==
    IF request.tenantContext = NoContext
    THEN [req |-> request, effects |-> <<Response(401, "TENANT_REQUIRED")>>]
    ELSE IF request.tenantContext.role \notin allowedRoles /\ request.tenantContext.role # "admin"
    THEN [req |-> request, effects |-> <<Response(403, "INSUFFICIENT_PERMISSIONS")>>]
    ELSE [req |-> request, effects |-> <<NextCall(Absent)>>]

\* requireRole(...allowedRoles)(req, res, next)
RequireRole(request, allowedRoles) ==
    IF request.tenantContext = NoContext
    THEN [req |-> request, effects |-> <<Response(401, "TENANT_REQUIRED")>>]
    ELSE IF request.tenantContext.role \notin allowedRoles
    THEN [req |-> request, effects |-> <<Response(403, "INSUFFICIENT_PERMISSIONS")>>]
    ELSE [req |-> request, effects |-> <<NextCall(Absent)>>]

\* Variant: every required permission must be held
HasPermission_Every(permissions, requiredPermissions) ==
    \A perm \in requiredPermissions : perm \in permissions

\* requiredPermissions.some((perm) => req.tenantContext!.permissions.includes(perm))
HasPermission(permissions, requiredPermissions) ==
    \E perm \in requiredPermissions : perm \in permissions

\* requirePermission(...requiredPermissions)(req, res, next)
RequirePermission(request, requiredPermissions) ==
    IF request.tenantContext = NoContext
    THEN [req |-> request, effects |-> <<Response(401, "TENANT_REQUIRED")>>]
    ELSE IF ~HasPermission(request.tenantContext.permissions, requiredPermissions)
    THEN [req |-> request, effects |-> <<Response(403, "INSUFFICIENT_PERMISSIONS")>>]
    ELSE [req |-> request, effects |-> <<NextCall(Absent)>>]

\* Variant: the subject carries the tenant and the tenant_id claim is left out
JwtPayload_NoTenantClaim(payload) ==
    [sub |-> payload.userId, tenant_id |-> Undefined, tenant_name |-> payload.tenantName,
     role |-> payload.role, permissions |-> payload.permissions, plan |-> payload.plan]

\* generateTenantToken: const jwtPayload: JWTPayload = { sub: payload.userId, ... }
JwtPayload(payload) ==
    [sub |-> payload.userId, tenant_id |-> payload.tenantId, tenant_name |-> payload.tenantName,
     role |-> payload.role, permissions |-> payload.permissions, plan |-> payload.plan]

\* The request stack goes on to the next middleware when the last one called next()
Continues ==
    IF chain = << >> THEN TRUE
    ELSE \E i \in DOMAIN chain[Len(chain)].effects :
            chain[Len(chain)].effects[i] = NextCall(Absent)

\* The responses among the effects of an invocation
Responses(effects) == SelectSeq(effects, LAMBDA e : e.kind = "response")

\* One invocation of a middleware on the request in flight
Invoke(name, args, result) ==
    /\ Continues
    /\ Len(chain) < MaxMiddleware
    /\ req' = result.req
    /\ res' = res \o Responses(result.effects)
    /\ chain' = Append(chain, [name |-> name, args |-> args, before |-> req,
                               after |-> result.req, at |-> now,
                               effects |-> result.effects])
    /\ UNCHANGED <<minted, now, errors, ncalls, actor, audit_logs>>
    /\ UNCHANGED <<repositoryVars, legacyVars, serviceVars>>

\* A request arrives with the given authorization header
Receive(header) ==
    /\ req' = NewRequest(header)
    /\ res' = << >>
    /\ chain' = << >>
    /\ UNCHANGED <<minted, now, errors, ncalls, actor, audit_logs>>
    /\ UNCHANGED <<repositoryVars, legacyVars, serviceVars>>

TenantExtractorMiddleware(jwtSecret) ==
    Invoke("tenantExtractorMiddleware", {jwtSecret}, TenantExtractor(req, jwtSecret, now))

RequireTenantContextMiddleware ==
    Invoke("requireTenantContext", {}, RequireTenantContext(req))

RequireRoleMiddleware(allowedRoles) ==
    Invoke("requireRole", allowedRoles, RequireRole(req, allowedRoles))

RequirePermissionMiddleware(requiredPermissions) ==
    Invoke("requirePermission", requiredPermissions, RequirePermission(req, requiredPermissions))

\* generateTenantToken(payload, jwtSecret, expiresIn)
GenerateTenantToken(payload, jwtSecret, expiresIn) ==
    /\ minted' = [payload |-> payload,
                  token |-> Sign(JwtPayload(payload), jwtSecret, expiresIn, now)]
    /\ UNCHANGED <<req, res, chain, now, errors, ncalls, actor, audit_logs>>
    /\ UNCHANGED <<repositoryVars, legacyVars, serviceVars>>

\* The credentials a client may present: signed by either key, with any
\* claims, expiring at either instant; and a string that is no JWT
ExpirySet == {1, 2}
Tokens == {NoToken} \cup [payload : Payloads, key : {JwtSecret}, iat : {0}, exp : ExpirySet,
                          wellFormed : {TRUE}]
          \cup [payload : {NoPayload}, key : Secrets, iat : {0}, exp : ExpirySet,
                wellFormed : {TRUE}]
Headers == {NoHeader} \cup [scheme : {"Bearer "}, credentials : Tokens]
           \cup [scheme : Schemes, credentials : {NoToken}]

\* Credential parsing: any header, then the extractor
NextCredential ==
    \/ Tick
    \/ \E h \in Headers : Receive(h)
    \/ TenantExtractorMiddleware(JwtSecret)

SpecCredential == Init /\ [][NextCredential]_vars

\* The credentials of the guarded requests: a tenant's user with any of the
\* roles and permission sets tried, a credential that expires, and none
GuardPayloads == [sub : {<<"u1">>}, tenant_id : {<<"t2">>}, tenant_name : {Absent},
                  role : {Absent, "admin", "viewer"}, permissions : PermissionSet,
                  plan : {Absent}]
GuardHeaders == {NoHeader}
                \cup [scheme : {"Bearer "},
                      credentials : [payload : GuardPayloads, key : {JwtSecret}, iat : {0},
                                     exp : ExpirySet, wellFormed : {TRUE}]]

\* The arguments the guards are built with
AllowedRoleSets == {{}, {"admin"}, {"admin", "manager"}, {"user", "viewer"}}
RequiredPermissionSets == {{}, {"orders:create"}, {"orders:create", "orders:delete"}}

\* A request passing through the extractor and the guards, in any order
NextGuard ==
    \/ Tick
    \/ \E h \in GuardHeaders : Receive(h)
    \/ TenantExtractorMiddleware(JwtSecret)
    \/ RequireTenantContextMiddleware
    \/ \E allowedRoles \in AllowedRoleSets : RequireRoleMiddleware(allowedRoles)
    \/ \E requiredPermissions \in RequiredPermissionSets :
            RequirePermissionMiddleware(requiredPermissions)

SpecGuard == Init /\ [][NextGuard]_vars

\* The TenantContext values generateTenantToken is given: tenantName and
\* plan are optional
Contexts == [tenantId : {<<"t1">>, << >>}, userId : {<<"u1">>, <<"t2", Delimiter, "u1">>},
             tenantName : TenantNameSet, plan : {Absent, "pro"}, role : {"admin", "user"},
             permissions : {{}, {"orders:create"}}, issuedAt : {0}, expiresAt : {0}]

\* expiresIn, in ticks of the clock
Lifetimes == {1, 2}

\* A token is issued, then presented as a bearer credential and parsed, any
\* number of times and at any time
NextToken ==
    \/ Tick
    \/ \E c \in Contexts, expiresIn \in Lifetimes :
            req.authorization = NoHeader /\ GenerateTenantToken(c, JwtSecret, expiresIn)
    \/ minted # NoMint /\ Receive([scheme |-> "Bearer ", credentials |-> minted.token])
    \/ TenantExtractorMiddleware(JwtSecret)

SpecToken == Init /\ [][NextToken]_vars

----------------------------------------------------------------------------
(* Properties of BaseTenantRepository *)

\* The call caller p started in this step: its method and arguments
Started(p) == ncalls' = ncalls + 1 /\ actor' = p
StartedCall(p) ==
    IF pc'[p] = "idle"
    THEN [op |-> ret'[p].op, tenantId |-> ret'[p].tenantId, id |-> ret'[p].id, data |-> ret'[p].data]
    ELSE [op |-> call'[p].op, tenantId |-> call'[p].tenantId, id |-> call'[p].id, data |-> call'[p].data]

\* C1: read isolation -- a row that findAll or findById hands to tenant B was
\* created under B, whatever creates, updates and deletes came before.
C1_ReadIsolation ==
    \A p \in Callers :
        (ret[p].op \in {"findAll", "findById"} /\ ret[p].settled = "resolved")
            => \A r \in ret[p].rows : createdUnder[r.id] = ret[p].tenantId

\* C2: write isolation with read-before-write -- an update or delete for
\* (tenantId, id) that matches no row rejects with the not-found error, sends
\* no write statement and leaves the table as it was; and a write statement is
\* never the first statement of a call: the tenant-scoped SELECT precedes it.
C2_WriteIsolation ==
    [][\A p \in Callers :
        /\ (Started(p) /\ StartedCall(p).op \in {"update", "delete"}
              /\ ~\E r \in table : r.id = StartedCall(p).id
                                    /\ r.tenant_id = StartedCall(p).tenantId)
            => /\ pc'[p] = "idle"
               /\ ret'[p].settled = "rejected"
               /\ ret'[p].error = NotFoundError(StartedCall(p).tenantId)
               /\ table' = table
               /\ \A i \in 1..Len(sent'[p]) : sent'[p][i].sql = "SELECT"
        /\ \A i \in 1..Len(sent'[p]) :
              sent'[p][i].sql \in {"UPDATE", "DELETE"}
                  => i > 1 /\ sent'[p][1] = Stmt("SELECT", sent'[p][i].tenant)
      ]_vars

\* C2 witness: an update under one tenant on the id of another tenant's row was rejected
C2_Witness ==
    \E p \in Callers, r \in table :
        /\ ret[p].op = "update" /\ ret[p].settled = "rejected"
        /\ ret[p].error = NotFoundError(ret[p].tenantId)
        /\ ret[p].id = r.id /\ ret[p].tenantId # r.tenant_id
        /\ createdUnder[r.id] = r.tenant_id
        /\ sent[p] = <<Stmt("SELECT", ret[p].tenantId)>>

\* What a caller observes of update and delete run alone on the store `rows`
UpdateObserved(rows, tenantId, id, data, date) ==
    LET found == FindByIdOutcome(rows, tenantId, id)
    IN IF found[1] = "rejected" THEN found
       ELSE <<"resolved", NoError,
              {UpdatedRow(r, DataWithTimestamp(data, date)) : r \in UpdateMatched(rows, tenantId, id)}>>
DeleteObserved(rows, tenantId, id) ==
    LET found == FindByIdOutcome(rows, tenantId, id)
    IN IF found[1] = "rejected" THEN found
       ELSE <<"resolved", NoError, {}>>

\* C3: no existence leak -- take any reachable store and any row r in it; to
\* a tenant other than r's, findById, update and delete on r's id give the
\* same outcome (same rejection, same message) on the store with r and on the
\* store without r.
C3_NoExistenceLeak ==
    \A r \in table : \A B \in Tenants \ {r.tenant_id} :
        /\ FindByIdOutcome(table, B, r.id) = FindByIdOutcome(table \ {r}, B, r.id)
        /\ \A d \in DataSet :
              UpdateObserved(table, B, r.id, d, now) = UpdateObserved(table \ {r}, B, r.id, d, now)
        /\ DeleteObserved(table, B, r.id) = DeleteObserved(table \ {r}, B, r.id)

\* C3 witness: a findById and a delete under one tenant, each on the id of a
\* row another tenant holds, were both answered with the not-found rejection
C3_Witness ==
    \E p, q \in Callers, r \in table :
        /\ p # q
        /\ ret[p].op = "findById" /\ ret[q].op = "delete"
        /\ ret[p].id = r.id /\ ret[q].id = r.id
        /\ ret[p].tenantId # r.tenant_id /\ ret[q].tenantId # r.tenant_id
        /\ ret[p].settled = "rejected" /\ ret[q].settled = "rejected"
        /\ ret[p].error = ret[q].error

\* C6: create(tenantId, data) adds one row whose tenant_id is the tenantId
\* argument (whatever data.tenant_id says) and whose created_at and updated_at
\* are the time of the call, returns that row, and findById(tenantId, row.id)
\* run next returns it.
C6_CreateInjectsTenant ==
    [][\A p \in Callers :
        (Started(p) /\ StartedCall(p).op = "create")
            => \E record \in table' \ table :
                  /\ table' = table \cup {record}
                  /\ record.tenant_id = StartedCall(p).tenantId
                  /\ record.created_at = now /\ record.updated_at = now
                  /\ pc'[p] = "idle" => /\ ret'[p].settled = "resolved"
                                        /\ ret'[p].rows = {record}
                  /\ FindByIdOutcome(table', StartedCall(p).tenantId, record.id)
                        = <<"resolved", NoError, {record}>>
      ]_vars

\* C6 witness: a create whose data named another tenant returned its row
C6_Witness ==
    \E p \in Callers :
        /\ ret[p].op = "create" /\ ret[p].settled = "resolved"
        /\ ret[p].data.tenant_id \in Tenants \ {ret[p].tenantId}
        /\ ret[p].rows \subseteq table
        /\ \A r \in ret[p].rows : r.tenant_id = ret[p].tenantId

\* C7: the UPDATE of a successful update(tenantId, id, data) replaces the one
\* row (tenantId, id) by a row that differs from it at most in the columns
\* data names and in updated_at; every other row stays as it was.
C7_UpdateFrame ==
    [][\A p \in Callers :
        (pc[p] = "update_write" /\ pc'[p] # "update_write"
            /\ ~(pc'[p] = "idle" /\ ret'[p].settled = "rejected"))
            => \E r \in table : \E u \in table' :
                  /\ r.id = call[p].id /\ r.tenant_id = call[p].tenantId
                  /\ table' = (table \ {r}) \cup {u}
                  /\ u.id = r.id
                  /\ u.created_at = r.created_at
                  /\ call[p].data.status = Absent => u.status = r.status
                  /\ call[p].data.tenant_id = Absent => u.tenant_id = r.tenant_id
      ]_vars

\* C7 witness: an update that named tenant_id alone returned a row whose
\* status is not the column default
C7_Witness ==
    \E p \in Callers :
        /\ ret[p].op = "update" /\ ret[p].settled = "resolved"
        /\ ret[p].data.status = Absent
        /\ \E u \in ret[p].rows : u.status = "completed" /\ u \in table
        /\ Cardinality(table) > 1

\* C8: delete resolves to true exactly when its DELETE removed one row, a
\* findById(tenantId, id) run after a true result rejects with not-found, and
\* of two deletes of the same id at most one resolves to true.
C8_DeleteResult ==
    /\ [](\A p, q \in Callers :
            (p # q /\ ret[p].op = "delete" /\ ret[q].op = "delete" /\ ret[p].id = ret[q].id)
                => ~(ret[p].flag /\ ret[q].flag))
    /\ [][\A p \in Callers :
            (pc[p] = "delete_write" /\ pc'[p] = "idle")
                => /\ ret'[p].settled = "resolved"
                   /\ ret'[p].flag <=> Cardinality(table \ table') = 1
                   /\ table' \subseteq table
                   /\ ret'[p].flag =>
                        FindByIdOutcome(table', call[p].tenantId, call[p].id)
                            = <<"rejected", NotFoundError(call[p].tenantId), {}>>
       ]_vars

\* C8 witness: two deletes of one row ran interleaved; one resolved to true, the other to false
C8_Witness ==
    \E p, q \in Callers :
        /\ p # q
        /\ ret[p].op = "delete" /\ ret[q].op = "delete"
        /\ ret[p].id = ret[q].id /\ ret[p].tenantId = ret[q].tenantId
        /\ ret[p].settled = "resolved" /\ ret[q].settled = "resolved"
        /\ ret[p].flag /\ ~ret[q].flag

\* The method whose statements sent[p] holds
CallOp(p) == IF pc[p] = "idle" THEN ret[p].op ELSE call[p].op

\* C4: every statement a method of BaseTenantRepository sends binds a tenant
\* identifier, in its predicate or in the row it inserts, unless the method is
\* unsafe(), which has then written a warning.
C4_EveryStatementTenantBound ==
    \A p \in Callers :
        /\ CallOp(p) # "unsafe" => \A i \in 1..Len(sent[p]) : sent[p][i].tenant \in Tenants
        /\ CallOp(p) = "unsafe" => warnings > 0

\* C9: query with validateTenantId set rejects with the unsafe-query error and
\* sends nothing when no word of the text is tenant_id in any letter case;
\* otherwise it sends the text and the values it was given.
C9_QueryGuard ==
    [][\A p \in Callers :
        (Started(p) /\ StartedCall(p).op = "query" /\ ret'[p].query.validateTenantId)
            => LET q == ret'[p].query
               IN IF \A i \in 1..Len(q.text) : q.text[i] \notin {"tenant_id", "TENANT_ID"}
                  THEN /\ ret'[p].settled = "rejected"
                       /\ ret'[p].error = UnsafeQueryError
                       /\ sent'[p] = << >>
                       /\ table' = table
                  ELSE /\ Len(sent'[p]) = 1
                       /\ sent'[p][1].sql = "QUERY"
                       /\ sent'[p][1].text = q.text
                       /\ sent'[p][1].values = q.values
      ]_vars

\* C9 witness: SELECT * FROM orders was refused with validateTenantId set
C9_Witness ==
    \E p \in Callers :
        /\ ret[p].op = "query" /\ ret[p].query.validateTenantId
        /\ ret[p].query.text = <<"SELECT", "*", "FROM", "orders">>
        /\ ret[p].settled = "rejected" /\ ret[p].error = UnsafeQueryError
        /\ sent[p] = << >>
        /\ table # {}

\* C10: when transaction settles, every row written while its body ran is in
\* the table if the body resolved and none of them is if the body rejected.
C10_TransactionAtomic ==
    [][\A p \in Callers :
        (pc[p] = "tx_body" /\ pc'[p] = "idle")
            => IF ret'[p].settled = "resolved"
               THEN txn[p].wrote \subseteq table'
               ELSE txn[p].wrote \cap table' = {}
      ]_vars

----------------------------------------------------------------------------
(* Properties of ordersService and the legacy repositories *)

\* C5: a tenant-scoped record is returned or modified only under a tenant
\* restriction: every order an operation of BaseRepository, OrdersRepository
\* or ordersService returns or changes for a request was created by a request
\* of the same tenant.
C5_LegacyAccessTenantRestricted ==
    /\ \A order \in lret.returned : orderOwner[order.id] = lret.tenant
    /\ \A id \in lret.modified : orderOwner[id] = lret.tenant

----------------------------------------------------------------------------
(* Properties of TenantService *)

\* The TenantService call that caller p started, and that settled, in this step
ServiceCalled(p, op) == Started(p) /\ spc'[p] = "idle" /\ sret'[p].op = op

\* used_r and max_r: the columns of tenant_quotas that count and bound resource r
UsedColumn(r) ==
    CASE r = "users" -> "used_users"
      [] r = "orders" -> "used_orders"
      [] r = "events" -> "used_events"
      [] r = "api_calls" -> "used_api_calls"
MaxColumn(r) ==
    CASE r = "users" -> "max_users"
      [] r = "orders" -> "max_orders"
      [] r = "events" -> "max_events"
      [] r = "api_calls" -> "api_calls_per_day"

QuotaOf(t) == CHOOSE q \in tenant_quotas : q.tenant_id = t

\* C11: validateQuota(t, r), r one of users, orders, events, api_calls, fails
\* with the quota-exceeded error of r exactly when used_r >= max_r in t's
\* quota row, returns true otherwise, and leaves every counter as it was.
C11_ValidateQuota ==
    [][\A p \in Callers, t \in Tenants, r \in CheckedResources :
        (ServiceCalled(p, "validateQuota") /\ sret'[p].tenantId = t /\ sret'[p].resource = r)
        => /\ (QuotaOf(t)[UsedColumn(r)] >= QuotaOf(t)[MaxColumn(r)])
                <=> (sret'[p].settled = "rejected")
           /\ sret'[p].settled = "rejected" => sret'[p].error = QuotaExceededError(r, t)
           /\ sret'[p].settled # "rejected"
                => (sret'[p].settled = "resolved" /\ sret'[p].value = TRUE)
           /\ tenant_quotas' = tenant_quotas]_vars

\* At max 1000, validateQuota(t, 'orders') passed with used 999 and, after one
\* increment, failed with used 1000
C11_Witness ==
    \E p, q \in Callers, t \in Tenants :
        /\ QuotaOf(t).max_orders = 1000 /\ QuotaOf(t).used_orders = 1000
        /\ quota0 # tenant_quotas
        /\ sret[p].op = "validateQuota" /\ sret[p].tenantId = t /\ sret[p].resource = "orders"
        /\ sret[p].settled = "resolved"
        /\ sret[q].op = "validateQuota" /\ sret[q].tenantId = t /\ sret[q].resource = "orders"
        /\ sret[q].settled = "rejected"

\* C12: a create through the tenant repository is preceded by validateQuota,
\* so that no row is inserted for a tenant whose used_orders has reached
\* max_orders (the create fails with quota-exceeded instead).
C12_CreateChecksQuota ==
    [][\A t \in Tenants :
        QuotaOf(t).used_orders >= QuotaOf(t).max_orders
        => /\ \A r \in table' \ table : r.tenant_id # t
           /\ \A p \in Callers : \A i \in 1..Len(sent'[p]) :
                (sent'[p] # sent[p] /\ sent'[p][i].sql = "INSERT") => sent'[p][i].tenant # t]_vars

Quota0Of(t) == CHOOSE q \in quota0 : q.tenant_id = t

\* C13: no lost updates.  Whatever the order in which the storage calls of
\* concurrent incrementQuota calls run, each used counter equals its initial
\* value plus the amounts of the increments that completed on it: n calls
\* incrementQuota(t, r, 1) leave used_r at its initial value plus n.
C13_NoLostUpdates ==
    \A t \in Tenants, f \in UsedFields :
        QuotaOf(t)[f] = Quota0Of(t)[f] + added[t][f]

\* Two callers have each completed incrementQuota(t, 'orders', 1) and
\* used_orders stands two above its initial value
C13_Witness ==
    \E t \in Tenants :
        /\ \A p \in Callers :
            /\ sret[p].op = "incrementQuota" /\ sret[p].tenantId = t
            /\ sret[p].resource = "orders" /\ sret[p].amount = 1
        /\ QuotaOf(t).used_orders = Quota0Of(t).used_orders + 2

\* C14: with calls serialized, once validateQuota(t, r) has passed and the
\* incrementQuota(t, r, amount) that follows it has completed, used_r <= max_r,
\* whatever amount incrementQuota was given.
C14_SerializedWithinQuota ==
    \A p \in SerialCallers :
        sret[p].op = "incrementQuota"
        => QuotaOf(sret[p].tenantId)[UsedColumn(sret[p].resource)]
              <= QuotaOf(sret[p].tenantId)[MaxColumn(sret[p].resource)]

\* C15: increments being atomic, used_r never exceeds max_r while several
\* requests of a tenant each run validateQuota(t, r) and then
\* incrementQuota(t, r, 1), interleaved at their storage calls.
C15_ConcurrentWithinQuota ==
    \A t \in Tenants, r \in CheckedResources :
        QuotaOf(t)[UsedColumn(r)] <= QuotaOf(t)[MaxColumn(r)]

\* C16: no used counter of a quota row is ever negative, whatever integer
\* amounts incrementQuota is called with.
C16_UsedNeverNegative ==
    \A q \in tenant_quotas, f \in UsedFields : q[f] >= 0

\* C17: api_calls rollover.  Once the clock has passed reset_date, the next
\* getQuotas, validateQuota or incrementQuota on the api_calls counter resets
\* used_api_calls to zero and moves reset_date past the clock, so that
\* validateQuota(t, 'api_calls') succeeds again on a tenant that had exhausted
\* the previous day's ceiling.
C17_ApiCallsRollover ==
    [][\A p \in Callers, t \in Tenants :
        (/\ Started(p) /\ sret'[p].tenantId = t
         /\ now > QuotaOf(t).reset_date
         /\ \/ sret'[p].op = "getQuotas"
            \/ sret'[p].op \in {"validateQuota", "incrementQuota"} /\ sret'[p].resource = "api_calls")
        => LET after == CHOOSE q \in tenant_quotas' : q.tenant_id = t
           IN /\ after.reset_date > now
              /\ after.used_api_calls = (IF sret'[p].op = "incrementQuota" THEN sret'[p].amount ELSE 0)
              /\ sret'[p].op = "validateQuota" => sret'[p].settled = "resolved"
              /\ sret'[p].op = "getQuotas" => sret'[p].quota.usedApiCalls = 0]_vars

----------------------------------------------------------------------------
(* Properties of the audit trail *)

\* Caller p's call settles in this step
Settles(p) == pc'[p] = "idle" /\ (pc[p] # "idle" \/ Started(p))

\* p's create, update or delete resolves in this step
MutationResolves(p) ==
    /\ Settles(p)
    /\ ret'[p].op \in {"create", "update", "delete"}
    /\ ret'[p].settled = "resolved"

AuditAction(op) ==
    CASE op = "create" -> "CREATE"
      [] op = "update" -> "UPDATE"
      [] op = "delete" -> "DELETE"

MutationSent(p) ==
    /\ Len(sent[p]) > 0
    /\ sent[p][Len(sent[p])].sql = (CASE call[p].op = "create" -> "INSERT"
                                      [] call[p].op = "update" -> "UPDATE"
                                      [] OTHER -> "DELETE")

C19_AuditFailureSwallowed ==
    [][\A p \in Callers :
        (pc[p] = "audit" /\ pc'[p] = "idle" /\ errors' = errors + 1)
        => /\ ret'[p].settled = "resolved"
           /\ ret'[p].op = call[p].op /\ ret'[p].tenantId = call[p].tenantId
           /\ call[p].op \in {"create", "update"} => ret'[p].rows = {call[p].record}
           /\ call[p].op = "delete" => ret'[p].flag = call[p].result
           /\ table' = table
           /\ audit_logs' = audit_logs]_vars

\* An audited create whose audit insert failed has resolved with the record,
\* which is in the table, and there is no audit entry
C19_Witness ==
    \E p \in Callers :
        /\ errors > 0 /\ audit_logs = << >>
        /\ ret[p].op = "create" /\ ret[p].options.auditLog /\ ret[p].settled = "resolved"
        /\ ret[p].rows # {} /\ ret[p].rows \subseteq table

\* C20: no operation that writes an audit entry surfaces the failure of that
\* write.  When the audit insert of suspendTenant fails, suspendTenant still
\* completes without error and the tenant stays suspended.
C20_SuspendAuditFailureSwallowed ==
    [][\A p \in Callers :
        (spc[p] = "suspend_audit" /\ spc'[p] = "idle" /\ audit_logs' = audit_logs)
        => /\ sret'[p].op = "suspendTenant"
           /\ sret'[p].settled = "resolved"
           /\ sret'[p].error = NoError
           /\ \A r \in tenants' : r.id = scall[p].tenantId => r.status = "suspended"]_vars


\* C21: the audit log is append-only.  Across the audited create, update
\* and delete of the repository and the operations of TenantService, every
\* step leaves the entries already written in place and unchanged, and can
\* only add entries after them.
C21_AuditAppendOnly ==
    [][/\ Len(audit_logs') >= Len(audit_logs)
       /\ SubSeq(audit_logs', 1, Len(audit_logs)) = audit_logs]_vars

\* A repository entry, then a suspension entry, then another repository
\* entry have been written one after another
C21_Witness ==
    /\ Len(audit_logs) = 3
    /\ audit_logs[1].action = "CREATE"
    /\ audit_logs[2].action = "SUSPEND_TENANT"
    /\ audit_logs[3].action \in {"UPDATE", "DELETE"}

----------------------------------------------------------------------------
(* Properties of the request pipeline *)

\* The invocations of tenantExtractorMiddleware on the request in flight
ExtractorRuns == {i \in DOMAIN chain : chain[i].name = "tenantExtractorMiddleware"}

\* The credential invocation i was given, and the key it verified with
TokenOf(i) == chain[i].before.authorization.credentials
SecretOf(i) == CHOOSE k \in chain[i].args : TRUE

\* Invocation i was given a bearer credential
BearerPresented(i) ==
    /\ chain[i].before.authorization # NoHeader
    /\ chain[i].before.authorization.scheme = "Bearer "

\* Invocation i was given a credential signed with its key
ValidSignature(i) ==
    BearerPresented(i) /\ TokenOf(i).wellFormed /\ TokenOf(i).key = SecretOf(i)

\* Invocation i was given a credential that verifies: signed with its key
\* and not yet expired
Verified(i) == ValidSignature(i) /\ chain[i].at < TokenOf(i).exp

\* Invocation i attached nothing to the request
NothingAttached(i) ==
    /\ chain[i].after.tenantContext = NoContext
    /\ chain[i].after.userId = Undefined
    /\ chain[i].after.tenantId = Undefined

\* C22: a bearer credential with a valid signature whose exp lies in the
\* past is answered 401 TOKEN_EXPIRED, and no tenant context is attached.
C22_ExpiredTokenRejected ==
    \A i \in ExtractorRuns :
        (ValidSignature(i) /\ chain[i].at >= TokenOf(i).exp)
        => /\ chain[i].effects = <<Response(401, "TOKEN_EXPIRED")>>
           /\ NothingAttached(i)

\* A text carries a value: it is neither undefined nor empty
HasValue(text) == text # Undefined /\ text # << >>

\* The part of a text before its first "|" (the whole text when it has none)
FirstSegment(text) ==
    LET n == CHOOSE k \in 0..Len(text) :
                /\ \A j \in 1..k : text[j] # Delimiter
                /\ k = Len(text) \/ text[k + 1] = Delimiter
    IN SubSeq(text, 1, n)

\* C23: for a verified token the context's tenantId is the tenant_id claim
\* when the token carries one (a non-empty value), and otherwise the first
\* segment of sub split on "|"; when neither yields a value the request is
\* answered 401, nothing is attached and next is not called.
C23_TenantIdSource ==
    \A i \in ExtractorRuns :
        Verified(i) =>
            LET claims == TokenOf(i).payload
                fromSub == IF claims.sub = Undefined THEN Undefined
                           ELSE FirstSegment(claims.sub)
            IN IF HasValue(claims.tenant_id)
               THEN /\ chain[i].after.tenantContext.tenantId = claims.tenant_id
                    /\ chain[i].after.tenantId = claims.tenant_id
                    /\ chain[i].effects = <<NextCall(Absent)>>
               ELSE IF HasValue(fromSub)
               THEN /\ chain[i].after.tenantContext.tenantId = fromSub
                    /\ chain[i].after.tenantId = fromSub
                    /\ chain[i].effects = <<NextCall(Absent)>>
               ELSE /\ Len(chain[i].effects) = 1
                    /\ chain[i].effects[1].kind = "response"
                    /\ chain[i].effects[1].status = 401
                    /\ NothingAttached(i)

\* A verified token without tenant_id whose subject is "t1|u1" gave tenant t1
C23_Witness ==
    \E i \in ExtractorRuns :
        /\ Verified(i)
        /\ TokenOf(i).payload.tenant_id = Undefined
        /\ TokenOf(i).payload.sub = <<"t1", Delimiter, "u1">>
        /\ chain[i].after.tenantId = <<"t1">>
        /\ req.tenantContext.tenantId = <<"t1">>

\* C24: when no bearer credential is presented (no authorization header, or
\* one of another scheme) the extractor calls next exactly once, sends no
\* response and leaves tenantContext, tenantId and userId unset.
C24_NoCredentialPasses ==
    \A i \in ExtractorRuns :
        ~BearerPresented(i)
        => /\ chain[i].effects = <<NextCall(Absent)>>
           /\ res = << >>
           /\ NothingAttached(i)
           /\ chain[i].after = chain[i].before

\* A request with a Basic authorization header went through the extractor
C24_Witness ==
    \E i \in ExtractorRuns :
        /\ chain[i].before.authorization.scheme = "Basic "
        /\ chain[i].effects = <<NextCall(Absent)>>
        /\ req.tenantContext = NoContext

\* The invocations of the extractor that were given the token last issued,
\* before its expiry, with the key that signed it
RoundTrips ==
    {i \in ExtractorRuns : /\ minted # NoMint
                           /\ BearerPresented(i)
                           /\ TokenOf(i) = minted.token
                           /\ SecretOf(i) = minted.token.key
                           /\ chain[i].at < minted.token.exp}

\* C28: a token produced by generateTenantToken(c, secret, expiry) and
\* presented before its expiry to the extractor with the same secret yields a
\* context with the same tenantId, userId, tenantName, role, permissions and
\* plan as c, for every TenantContext c.
C28_TokenRoundTrip ==
    \A i \in RoundTrips :
        LET c == minted.payload
            context == chain[i].after.tenantContext
        IN /\ chain[i].effects = <<NextCall(Absent)>>
           /\ context.tenantId = c.tenantId
           /\ context.userId = c.userId
           /\ context.tenantName = c.tenantName
           /\ context.role = c.role
           /\ context.permissions = c.permissions
           /\ context.plan = c.plan

\* C28 as amended: for every TenantContext c with a non-empty tenantId the
\* round trip yields the same tenantId, userId, tenantName, role and
\* permissions, and the plan of c when c has one, "free" when it has none.
C28_TokenRoundTripWithDefaults ==
    \A i \in RoundTrips :
        LET c == minted.payload
            context == chain[i].after.tenantContext
        IN HasValue(c.tenantId)
           => /\ chain[i].effects = <<NextCall(Absent)>>
              /\ context.tenantId = c.tenantId
              /\ context.userId = c.userId
              /\ context.tenantName = c.tenantName
              /\ context.role = c.role
              /\ context.permissions = c.permissions
              /\ context.plan = (IF c.plan = Absent THEN "free" ELSE c.plan)

\* A token issued for an admin of t1 on plan pro, whose user id holds a "|",
\* came back as the same context
C28_Witness ==
    \E i \in RoundTrips :
        /\ minted.payload.tenantId = <<"t1">>
        /\ minted.payload.userId = <<"t2", Delimiter, "u1">>
        /\ minted.payload.plan = "pro" /\ minted.payload.role = "admin"
        /\ minted.payload.permissions = {"orders:create"}
        /\ req.tenantContext.tenantId = <<"t1">>
        /\ req.tenantContext.plan = "pro"

\* C29: for a verified token that yields a tenant, the context has plan
\* "free" when the token carries no plan, role "user" when it carries no
\* role and no permissions when it carries none; a claim the token carries
\* (for plan and role: a non-empty value) is copied unchanged, as are sub and
\* tenant_name.
C29_ContextDefaults ==
    \A i \in ExtractorRuns :
        (Verified(i) /\ chain[i].effects = <<NextCall(Absent)>>) =>
            LET claims == TokenOf(i).payload
                context == chain[i].after.tenantContext
            IN /\ context.plan = (IF claims.plan = Absent \/ claims.plan = "" THEN "free"
                                  ELSE claims.plan)
               /\ context.role = (IF claims.role = Absent \/ claims.role = "" THEN "user"
                                  ELSE claims.role)
               /\ context.permissions = (IF claims.permissions = NoPermissions THEN {}
                                         ELSE claims.permissions)
               /\ context.userId = claims.sub
               /\ context.tenantName = claims.tenant_name

\* A verified token without plan, role and permissions gave the three
\* defaults
C29_Witness ==
    \E i \in ExtractorRuns :
        /\ Verified(i)
        /\ TokenOf(i).payload.plan = Absent /\ TokenOf(i).payload.role = Absent
        /\ TokenOf(i).payload.permissions = NoPermissions
        /\ req.tenantContext.plan = "free" /\ req.tenantContext.role = "user"
        /\ req.tenantContext.permissions = {}

\* C25: every invocation of the extractor and of the three guards ends in
\* exactly one of a single 401 or 403 response and a single call of next;
\* once a response is sent no further middleware or handler runs for the
\* request; requireTenantContext answers 401 TENANT_REQUIRED when no context
\* was attached.
C25_ShortCircuit ==
    /\ \A i \in DOMAIN chain :
        /\ Len(chain[i].effects) = 1
        /\ chain[i].effects[1].kind = "response"
            => /\ chain[i].effects[1].status \in {401, 403}
               /\ i = Len(chain)
               /\ res = <<chain[i].effects[1]>>
        /\ (chain[i].name = "requireTenantContext" /\ chain[i].before.tenantContext = NoContext)
            => chain[i].effects = <<Response(401, "TENANT_REQUIRED")>>
    /\ Len(res) <= 1

\* A request without credential passed the extractor and was stopped by
\* requireTenantContext
C25_Witness ==
    /\ Len(chain) = 2
    /\ chain[1].name = "tenantExtractorMiddleware" /\ chain[1].effects = <<NextCall(Absent)>>
    /\ chain[2].name = "requireTenantContext"
    /\ res = <<Response(401, "TENANT_REQUIRED")>>

\* The storage the repositories and the service read and write
storageVars == <<table, audit_logs, tenant_quotas, tenants, tenant_settings, pgOrders,
                 memoryStore, orders, sent>>

\* The middleware invoked in this step, if the step is an invocation
Invoked(name) == Len(chain') = Len(chain) + 1 /\ chain'[Len(chain')].name = name

\* C26: requireRole(allowed) calls next if and only if a context is attached
\* and its role is in allowed; with a context of another role it answers 403
\* INSUFFICIENT_PERMISSIONS, with no context 401 TENANT_REQUIRED; it leaves
\* the request and the storage as they were.
C26_RequireRole ==
    [][Invoked("requireRole") =>
        LET e == chain'[Len(chain')]
        IN /\ e.effects = (IF req.tenantContext = NoContext
                           THEN <<Response(401, "TENANT_REQUIRED")>>
                           ELSE IF req.tenantContext.role \in e.args
                           THEN <<NextCall(Absent)>>
                           ELSE <<Response(403, "INSUFFICIENT_PERMISSIONS")>>)
           /\ req' = req
           /\ UNCHANGED storageVars]_vars

\* An admin was let through by requireRole('admin', 'manager')
C26_Witness ==
    /\ Len(chain) = 2
    /\ chain[2].name = "requireRole" /\ chain[2].args = {"admin", "manager"}
    /\ req.tenantContext.role = "admin"
    /\ chain[2].effects = <<NextCall(Absent)>>

\* C27: requirePermission(required), given a context, calls next if and only
\* if the context holds at least one of the required permissions, whatever
\* its role, and otherwise answers 403 INSUFFICIENT_PERMISSIONS; so an empty
\* required set refuses every context.
C27_RequirePermission ==
    \A i \in DOMAIN chain :
        (chain[i].name = "requirePermission" /\ chain[i].before.tenantContext # NoContext)
        => LET held == chain[i].before.tenantContext.permissions
           IN /\ chain[i].effects = (IF held \cap chain[i].args # {}
                                     THEN <<NextCall(Absent)>>
                                     ELSE <<Response(403, "INSUFFICIENT_PERMISSIONS")>>)
              /\ chain[i].args = {} => chain[i].effects[1].kind = "response"

\* A context with role user and no permissions was refused by
\* requirePermission('orders:create')
C27_Witness ==
    /\ Len(chain) = 2
    /\ chain[2].name = "requirePermission" /\ chain[2].args = {"orders:create"}
    /\ req.tenantContext.role = "user" /\ req.tenantContext.permissions = {}
    /\ res = <<Response(403, "INSUFFICIENT_PERMISSIONS")>>

----------------------------------------------------------------------------
(* Properties of tenant onboarding *)

\* C30: createTenant is all-or-nothing.  Whenever no createTenant call is
\* under way, also after one that failed at its second or third insert, each
\* row of tenants has a row in tenant_settings and a row in tenant_quotas.
C30_CreateTenantAtomic ==
    (\A p \in Callers : spc[p] = "idle")
    => \A r \in tenants :
        /\ \E s \in tenant_settings : s.tenant_id = r.id
        /\ \E q \in tenant_quotas : q.tenant_id = r.id

----------------------------------------------------------------------------
(* Further properties of BaseTenantRepository and TenantService *)

\* C36: record ownership is immutable.  After any sequence of create, update
\* and delete calls every stored record's tenant_id is the tenant under
\* which it was created, also when the data of an update names another
\* tenant in a tenant_id key.
C36_OwnershipImmutable ==
    \A r \in table : r.tenant_id = createdUnder[r.id]

\* The used counter that belongs to resource r; a name that is none of the
\* five resources has no counter
CounterOf(r) ==
    CASE r = "users" -> "used_users"
      [] r = "orders" -> "used_orders"
      [] r = "events" -> "used_events"
      [] r = "api_calls" -> "used_api_calls"
      [] r = "storage" -> "used_storage_mb"
      [] OTHER -> "none"

\* The columns of tenant_quotas
QuotaColumns == DOMAIN QuotaRow("t1", <<0, 0, 0, 0>>)

\* C37: incrementQuota(t, r, amount) changes only the used counter of
\* resource r in t's quota row: no other column of that row and no row of
\* another tenant changes, whatever the resource name r.
C37_IncrementFrame ==
    [][\A p \in Callers :
        ServiceCalled(p, "incrementQuota")
        => \A q \in tenant_quotas :
            IF q.tenant_id # sret'[p].tenantId
            THEN q \in tenant_quotas'
            ELSE \E q2 \in tenant_quotas' :
                    /\ q2.tenant_id = q.tenant_id
                    /\ \A f \in QuotaColumns \ {CounterOf(sret'[p].resource)} : q2[f] = q[f]]_vars

\* C38: every audit entry with action DELETE comes from a delete call that
\* removed a row.  When two audited deletes of one record interleave at
\* their storage calls, only the call whose DELETE removed the row, the one
\* that returns true, appends a DELETE entry.
C38_DeleteEntryMeansRemoved ==
    [][\A p \in Callers :
        (/\ pc[p] = "audit" /\ pc'[p] = "idle"
         /\ Len(audit_logs') = Len(audit_logs) + 1
         /\ audit_logs'[Len(audit_logs')].action = "DELETE")
        => /\ ret'[p].op = "delete"
           /\ ret'[p].flag = TRUE]_vars

----------------------------------------------------------------------------
(* Properties of the reads of TenantService *)

\* Caller p's call of op settles in this step
ServiceSettles(p, op) ==
    /\ sret'[p].op = op
    /\ spc'[p] = "idle"
    /\ spc[p] # "idle" \/ Started(p)

HasSettingsRow(t) == \E r \in tenant_settings : r.tenant_id = t
HasQuotaRow(t) == \E q \in tenant_quotas : q.tenant_id = t
IsTenant(t) == \E r \in tenants : r.id = t

DownstreamReads == {"getTenantSettings", "getTenantInfo", "getQuotas", "validateQuota"}

\* C31: for a tenant that has no tenant_settings row or no tenant_quotas
\* row, each of getTenantSettings, getTenantInfo, getQuotas and validateQuota
\* resolves, the settings it reports being the defaults when the settings
\* row is the one missing; none of them fails.
C31_ReadsFillDefaults ==
    [][\A p \in Callers, op \in DownstreamReads :
        (/\ ServiceSettles(p, op)
         /\ IsTenant(sret'[p].tenantId)
         /\ ~HasSettingsRow(sret'[p].tenantId) \/ ~HasQuotaRow(sret'[p].tenantId))
        => /\ sret'[p].settled = "resolved"
           /\ (op = "getTenantSettings" /\ ~HasSettingsRow(sret'[p].tenantId))
              => sret'[p].value = DefaultSettings
           /\ (op = "getTenantInfo" /\ ~HasSettingsRow(sret'[p].tenantId))
              => sret'[p].value.settings = DefaultSettings]_vars

\* C32: when createTenant(data) has returned a tenant and getTenantInfo is
\* then called with its id, the call resolves with the name, slug and email
\* of data, with plan "free" if data named no plan, with status "active" and
\* with settings of maxUsers 10, maxOrders 1000 and maxEvents 100; and
\* tenant_quotas holds a row for the tenant.
C32_CreateThenInfo ==
    [][\A p \in Callers : \A g \in onboarded :
        (ServiceSettles(p, "getTenantInfo") /\ sret'[p].tenantId = g.id)
        => /\ sret'[p].settled = "resolved"
           /\ sret'[p].value.id = g.id
           /\ sret'[p].value.name = g.data.name
           /\ sret'[p].value.slug = g.data.slug
           /\ sret'[p].value.email = g.data.email
           /\ g.data.plan = Absent => sret'[p].value.plan = "free"
           /\ g.data.plan # Absent => sret'[p].value.plan = g.data.plan
           /\ sret'[p].value.status = "active"
           /\ sret'[p].value.settings.maxUsers = DefaultMaxUsers
           /\ sret'[p].value.settings.maxOrders = DefaultMaxOrders
           /\ sret'[p].value.settings.maxEvents = DefaultMaxEvents
           /\ HasQuotaRow(g.id)']_vars

\* A getTenantInfo of a tenant that createTenant returned, made with no plan
C32_Witness ==
    \E p \in Callers : \E g \in onboarded :
        /\ g.data.plan = Absent
        /\ sret[p].op = "getTenantInfo"
        /\ sret[p].tenantId = g.id
        /\ sret[p].settled = "resolved"
        /\ sret[p].value.plan = "free"

----------------------------------------------------------------------------
(* Properties of the order handlers *)

\* The handler named answers a request in this step
Handles(handler) == ncalls' = ncalls + 1 /\ hres'.handler = handler

OrderOf(store, orderId) == store[FindIndex(store, orderId)]

\* C33: a processPayment request that carries amount, currency and
\* paymentMethod for an order that exists adds exactly one payment, which is
\* for that order and has status succeeded, leaves the payments there were
\* as they were and the order completed, and answers 201 with that order and
\* that payment.
C33_ProcessPayment ==
    [][(/\ Handles("processPayment")
        /\ ~Falsy(hres'.request.amount)
        /\ ~Falsy(hres'.request.currency)
        /\ ~Falsy(hres'.request.paymentMethod)
        /\ FindIndex(orders, hres'.orderId) > 0)
       => /\ Len(payments') = Len(payments) + 1
          /\ SubSeq(payments', 1, Len(payments)) = payments
          /\ payments'[Len(payments')].orderId = hres'.orderId
          /\ payments'[Len(payments')].status = "succeeded"
          /\ OrderOf(orders', hres'.orderId).status = "completed"
          /\ hres'.status = 201
          /\ hres'.body.order = OrderOf(orders', hres'.orderId)
          /\ hres'.body.payment = payments'[Len(payments')]]_vars

\* A payment was processed for an order that already had one
C33_Witness ==
    /\ hres.handler = "processPayment"
    /\ hres.status = 201
    /\ Len(payments) = 2
    /\ payments[1].orderId = payments[2].orderId

\* C34: a request an order handler answers with 400 or 404 adds no order, no
\* payment and no mint transaction and changes no order.
C34_RejectedChangesNothing ==
    [][(ncalls' = ncalls + 1 /\ hres'.status \in {400, 404})
       => /\ orders' = orders
          /\ payments' = payments
          /\ nftTransactions' = nftTransactions]_vars

\* updateOrderStatus answered 404 while an order existed
C34_Witness ==
    /\ hres.handler = "updateOrderStatus"
    /\ hres.status = 404
    /\ Len(orders) > 0

\* C35: mintNFT records a mint transaction and appends a token to the
\* order's nftTokenIds only when the order has status completed; for an order
\* in any other status it records none and nftTokenIds stays as it was.
C35_MintOnlyCompleted ==
    [][(/\ Handles("mintNFT")
        /\ FindIndex(orders, hres'.orderId) > 0
        /\ OrderOf(orders, hres'.orderId).status # "completed")
       => /\ nftTransactions' = nftTransactions
          /\ OrderOf(orders', hres'.orderId).nftTokenIds
               = OrderOf(orders, hres'.orderId).nftTokenIds]_vars

----------------------------------------------------------------------------
(* Properties of the legacy repositories across modes *)

\* C39: when the same create, update, findById and find calls are made of an
\* OrdersRepository in memory mode and of one in PostgreSQL mode, every call
\* returns the same orders in both and both end with the same stored orders.
C39_BackendEquivalence ==
    /\ Elements(memoryStore) = {mapRow(row) : row \in pgOrders}
    /\ lret.op \in {"create", "update", "findById", "find"} => lret.memory = lret.postgres
====
